---- MODULE Spec2Model ----
(***************************************************************************)
(* Model of the mosaic-addon display engine: the rotation Manager          *)
(* (package rotation), its control loop Manager.Run, and the Display        *)
(* (package display) whose renderApp is the Manager's advance callback.     *)
(*                                                                         *)
(* Every Manager method holds m.mu for its whole body, so each is one       *)
(* atomic action.  Manager.Run is a goroutine of its own that takes and     *)
(* releases m.mu several times while it handles one event; it is modelled   *)
(* with a program counter, one step per critical section.                   *)
(* Time is counted in ticks of the loop's 100 ms ticker.                    *)
(***************************************************************************)
EXTENDS Integers, Sequences, FiniteSets, Bags, TLC

\* ------------------------------------------------------------- constants
\* time.NewTicker(100 * time.Millisecond)
TickMs == 100

\* DefaultConfig: DefaultWidth, DefaultHeight; NewManager: brightness
Width == 64
Height == 32
InitBrightness == 80

\* rotation.Priority
PriorityLow == 0
PriorityNormal == 1
PriorityHigh == 2
PrioritySticky == 3
Priorities == PriorityLow..PrioritySticky

\* ---------------------------------------------------------------- bounds
\* longest app list the mutators build
MaxApps == 3
\* advance callbacks (goroutines) that may be running at once
MaxInflight == 2
\* ticks the elapsed-time counters still count once the default dwell is over
MaxOver == 1
\* Skip() calls counted between two consumptions of the skip slot
MaxSkipBurst == 2
\* notifications created in one run
MaxPushes == 3
\* notifications the second Display is given
MaxPeerPushes == 1
\* ShowApp restorations that may be sleeping at once
MaxTimers == 2

\* ---------------------------------------------------------------- inputs
\* rotation.AppEntry, reduced to the fields the scheduler reads
AppEntry(id, dwell, en) == [ID |-> id, DwellMs |-> dwell, Enabled |-> en]

\* the entries the mutators are called with
AppEntries ==
  { AppEntry("a", 0, TRUE), AppEntry("b", 0, FALSE), AppEntry("c", 100, TRUE) }

AppIds == { e.ID : e \in AppEntries }

\* the lists SetApps is called with (AddApp and RemoveApp build every other list
\* of up to MaxApps of these entries)
AppLists ==
  LET a == AppEntry("a", 0, TRUE)
      b == AppEntry("b", 0, FALSE)
      c == AppEntry("c", 100, TRUE)
  IN  { <<>>, << a >>, << b >>,
        << a, b >>, << b, c >>, << c, a >>, << b, b >>,
        << a, b, c >>, << b, a, b >>, << c, b, a >>, << a, c, b >> }

\* the lists a Display's rotation is given
DisplayLists ==
  { <<>>,
    << AppEntry("b", 0, FALSE) >>,
    << AppEntry("a", 0, TRUE), AppEntry("b", 0, FALSE) >>,
    << AppEntry("a", 0, TRUE), AppEntry("b", 0, FALSE), AppEntry("c", 100, TRUE) >> }

\* the lists of the Displays whose power is switched
PowerLists == { <<>>, << AppEntry("a", 0, TRUE) >> }

\* the default dwell NewManager is given in the general specification (ms)
DefaultDwells == { 200 }

\* the scenario of the spec's section 8
ScenarioApps ==
  << AppEntry("a", 0, TRUE), AppEntry("b", 0, FALSE), AppEntry("c", 20 * TickMs, TRUE) >>
ScenarioDwell == 50 * TickMs

\* the default dwell of the Display whose snapshot's dwell seconds are read (ms)
BlankDwell == 10 * TickMs

\* the installed app ShowApp is called with
ShowIds == { "c" }

\* ShowApp's durationSecs
ShowDurations == { 0, 1 }

\* PushText's durationSecs
TextDurations == { 1 }

\* the values SetBrightness is called with
BrightnessInputs == { -5, 50, 150 }

\* the lists and the brightness the second Display is given
PeerLists == { << >>, << AppEntry("c", 100, TRUE) >> }
PeerBrightness == { 50 }

Min(x, y) == IF x <= y THEN x ELSE y

\* ----------------------------------------------------------------- state
VARIABLES
  \* rotation.Manager
  apps,            \* m.apps
  currentIndex,    \* m.currentIndex (0-based, as in the source)
  enabled,         \* m.enabled
  defaultDwell,    \* m.defaultDwell, in ms
  skipCh,          \* number of signals buffered in m.skipCh (capacity 1)
  updateCh,        \* number of signals buffered in m.updateCh (capacity 1)
  onAdvance,       \* m.onAdvance != nil: a callback is registered
  \* Manager.Run
  pc,              \* position of the loop goroutine
  lastAdvanceZero, \* lastAdvance still holds the zero time.Time
  elapsed,         \* time.Since(lastAdvance) in ticks, when lastAdvance is set
  currentDwell,    \* Run's local currentDwell, in ms
  \* display.Display
  inflight,        \* bag of the entries the running renderApp calls were given
  currentFrame,    \* d.currentFrame
  \* observers (history of the run, read by the properties only)
  mark,            \* ticks since the loop's last advance() call, or since it started
  activeMark,      \* the ticks among those that found rotation enabled
  skipBurst,       \* Skip() calls since the skip slot was last consumed
  lastAdv,         \* the loop's last advance() call: why it was made ("tick" or
                   \* "skip"), m.enabled and whether the error screen was showing
                   \* at that moment, and the Skip() calls that one skip answered
  \* rotation.Manager and display.Display, the state behind the Display's API
  brightness,      \* m.brightness
  notifyQueue,     \* m.notifyQueue
  config,          \* d.config, the fields in memory
  disk,            \* the config file as the last successful Save wrote it (the
                   \* fields that are read back)
  call,            \* the Display method in progress: <<>> or << its frame >>
  timers,          \* bag of the sleeping ShowApp goroutines (the wasEnabled each holds)
  peer,            \* a second Display registered with the same server (the same
                   \* *config.Config): its m.enabled, m.brightness, m.apps, what
                   \* its snapshot shows, its skip slot and its notifications
  dims,            \* d.Width, d.Height: the size the Display was registered with
  stopCh,          \* m.stopCh and d.stopCh: "open" or "closed"
  ret,             \* the error value the Display method that returned last gave
                   \* its caller: "nil", the store's "error", "not installed"
                   \* or "not in rotation"; "panic" when it did not return
                   \* but panicked
  sync,            \* the goroutines at the grain of their lock operations: the
                   \* state of m.mu and d.mu, and what each goroutine has left to run
  hist             \* observer, read by the properties only: the notifications
                   \* pushed so far, the push whose text PushText last put in
                   \* the snapshot, the power cycle under way with the state
                   \* before it, and the overlapping ShowApp calls under way

mgrVars  == << apps, currentIndex, enabled, defaultDwell, skipCh, updateCh, onAdvance >>
loopVars == << pc, lastAdvanceZero, elapsed, currentDwell >>
dispVars == << inflight, currentFrame >>
obsVars  == << mark, activeMark, skipBurst, lastAdv >>
extVars  == << peer, sync, dims, ret, stopCh >>
apiVars  == << brightness, notifyQueue, config, disk, call, timers, hist, extVars >>
vars     == << mgrVars, loopVars, dispVars, obsVars, apiVars >>

\* ------------------------------------------------------ rotation.Manager
\* notifyUpdate: non-blocking send on the capacity-1 channel updateCh
NotifyUpdateBlocking(ch) == ch + 1
NotifyUpdate(ch) == IF ch < 1 THEN ch + 1 ELSE ch

\* Skip: non-blocking send on the capacity-1 channel skipCh
SkipSendAlways(ch) == ch + 1
SkipSend(ch) == IF ch < 1 THEN ch + 1 ELSE ch

\* the index SetApps leaves
SetAppsIndexKept(list, idx) == idx
SetAppsIndex(list, idx) == IF idx >= Len(list) THEN 0 ELSE idx

\* position (1-based) of the first entry with the given ID, 0 when there is none
RECURSIVE FirstMatch(_, _, _)
FirstMatch(list, id, i) ==
  IF i > Len(list) THEN 0
  ELSE IF list[i].ID = id THEN i
  ELSE FirstMatch(list, id, i + 1)

\* append(m.apps[:i], m.apps[i+1:]...), with i 1-based here
RemoveAt(list, i) == SubSeq(list, 1, i - 1) \o SubSeq(list, i + 1, Len(list))

\* the index RemoveApp leaves once the list has shrunk to newList
RemoveAppIndexNoReset(newList, idx) == idx
RemoveAppIndex(newList, idx) ==
  IF idx >= Len(newList) /\ Len(newList) > 0 THEN 0 ELSE idx

\* CurrentApp: the loop "for i := 0; i < len(m.apps); i++", from iteration i;
\* the result is <<app>>, or <<>> for nil
RECURSIVE CurrentAppScan(_, _, _)
CurrentAppScan(list, idx, i) ==
  IF i >= Len(list) THEN <<>>
  ELSE LET k == (idx + i) % Len(list)
       IN  IF list[k + 1].Enabled THEN << list[k + 1] >>
           ELSE CurrentAppScan(list, idx, i + 1)

CurrentAppNoCheck(list, idx) ==
  IF Len(list) = 0 THEN <<>> ELSE << list[(idx % Len(list)) + 1] >>
CurrentAppOf(list, idx) ==
  IF Len(list) = 0 THEN <<>> ELSE CurrentAppScan(list, idx, 0)

CurrentApp == CurrentAppOf(apps, currentIndex)

\* advance: the loop "for i := 0; i < len(m.apps); i++" from iteration i;
\* the result is m.currentIndex when the loop ends
AdvanceScanOneStep(list, startIdx, i) == (startIdx + i + 1) % Len(list)
RECURSIVE AdvanceScan(_, _, _)
AdvanceScan(list, startIdx, i) ==
  LET k == (startIdx + i + 1) % Len(list)
  IN  IF list[k + 1].Enabled \/ i + 1 >= Len(list) THEN k
      ELSE AdvanceScan(list, startIdx, i + 1)

AdvanceIndexRestart(list, idx) ==
  IF Len(list) = 0 THEN idx ELSE AdvanceScan(list, Len(list) - 1, 0)
AdvanceIndex(list, idx) == IF Len(list) = 0 THEN idx ELSE AdvanceScan(list, idx, 0)

\* getCurrentDwell, in ms
GetCurrentDwell(list, idx, dflt) ==
  IF Len(list) = 0 THEN dflt
  ELSE IF list[idx + 1].DwellMs > 0 THEN list[idx + 1].DwellMs
  ELSE dflt

\* time.Since(lastAdvance) >= currentDwell
DwellElapsed(zero, el, dwell) == zero \/ el * TickMs >= dwell

\* where the tick counters stop: no dwell of the inputs is longer than the default
ElapsedCap == defaultDwell \div TickMs + MaxOver

\* m.mu is held across states only by a callback that advance() would call
\* without "go"; every method that takes m.mu waits for it
MuHeld == \E g \in BagToSet(inflight) : "m.mu" \in g.locks

\* d.mu likewise: setFrame and GetFrame hold it only for their own bodies
DMuHeld == \E g \in BagToSet(inflight) : "d.mu" \in g.locks

\* ------------------------------------------------------- FrameData
\* d.currentFrame == nil
NilFrame == [AppName |-> "nil"]

\* the size a Display gets when the registration names none
DefaultDims == [Width |-> Width, Height |-> Height]

\* the sizes Displays are registered with
DisplaySizes == { DefaultDims, [Width |-> 2 * Width, Height |-> 2 * Height] }

\* ImagesToRGB for n images of w x h pixels: the length of the buffer
ImagesToRGB(n, w, h) == IF n = 0 THEN 0 ELSE (w * h * 3) * n

\* one image as the renderer paints it, in bytes: RenderApp and
\* RenderAppFromSource paint the roots without naming a size, so the images have
\* the default size whatever size the Display has
FrameSize == ImagesToRGB(1, Width, Height)

\* len(frame.Images): what the renderer paints for the content (c is animated)
Images(name) == IF name = "c" THEN 2 ELSE 1

\* setFrame, for the frame the renderer returned for the content `name`; Pixels
\* is ImagesToRGB(frame.Images), kept as its length and whether it is all zero
SetFrame(name) ==
  [ AppName    |-> name,
    Pixels     |-> [len |-> ImagesToRGB(Images(name), Width, Height), zero |-> FALSE],
    Width      |-> dims.Width,
    Height     |-> dims.Height,
    FrameCount |-> IF Images(name) > 0 THEN Images(name) ELSE 1,
    DwellSecs  |-> defaultDwell \div 1000,
    Brightness |-> brightness ]

renderBlankScreen ==
  [ AppName    |-> "off",
    Pixels     |-> [len |-> dims.Width * dims.Height * 3, zero |-> TRUE],
    Width      |-> dims.Width,
    Height     |-> dims.Height,
    FrameCount |-> 1,
    DwellSecs  |-> 0,
    Brightness |-> 0 ]

generateTestPattern ==
  [ AppName    |-> "test-pattern",
    Pixels     |-> [len |-> dims.Width * dims.Height * 3, zero |-> FALSE],
    Width      |-> dims.Width,
    Height     |-> dims.Height,
    FrameCount |-> 1,
    DwellSecs  |-> 0,
    Brightness |-> InitBrightness ]

\* ------------------------------------------------------------------ Init
\* nothing observed yet
NoHist ==
  [ pushes |-> 0,
    text   |-> 0,
    cycle  |-> "none",
    before |-> [enabled |-> TRUE, name |-> "nil"],
    shows  |-> [e0 |-> TRUE, n |-> 0, fired |-> 0] ]

\* DefaultConfig, the fields the Display's setters write (the rotation list,
\* Apps, is carried where the list is edited through the Display)
BaseConfig ==
  [RotationEnabled |-> TRUE, PowerOn |-> TRUE, Brightness |-> InitBrightness]

\* sync.RWMutex, unlocked: no writer, no readers, no writer waiting
FreeMutex == [w |-> "none", r |-> {}, pend |-> {}]

Mutexes == { "m.mu", "d.mu" }

\* the goroutines: Manager.Run, an advance callback, a GetFrame caller, a caller
\* of the Display's other methods, and the goroutine ShowApp starts
Threads == { "loop", "cb", "get", "api", "timer" }

\* every lock free and every goroutine at rest
\* the fields of a FrameData that GetFrame copies out of the stored snapshot
FrameFields == { "Pixels", "FrameCount", "DelayMs", "AppName" }

\* a FrameData built from the frame rendered for the content n: every field
\* carries n, so that a mix of two snapshots shows
Snapshot(n) == [f \in FrameFields |-> n]

\* every lock free, every goroutine at rest, no snapshot stored (frame), nothing
\* copied by GetFrame (got)
AtRest ==
  [ mu    |-> [x \in Mutexes |-> FreeMutex],
    thr   |-> [t \in Threads |-> << >>],
    ch    |-> [skip |-> 0, update |-> 0],
    run   |-> FALSE,
    frame |-> Snapshot("nil"),
    got   |-> Snapshot("none") ]

\* Manager.SetBrightness: the value m.brightness is given
UnclampedBrightness(b) == b
ClampBrightness(b) == IF b < 0 THEN 0 ELSE IF b > 100 THEN 100 ELSE b

\* the second Display as NewDisplay leaves it, given the same config (NewDisplay
\* hands cfg.Brightness to Manager.SetBrightness)
NewPeer(cfg) ==
  [ enabled    |-> cfg.RotationEnabled,
    brightness |-> ClampBrightness(cfg.Brightness),
    apps       |-> IF "Apps" \in DOMAIN cfg THEN cfg.Apps ELSE << >>,
    frame      |-> "startup",
    skipCh     |-> 0,
    pushes     |-> 0 ]

\* the state after NewManager(dflt), SetEnabled and SetApps(list) (which sends on
\* updateCh), with or without a callback registered by OnAdvance; cfg is the
\* config as config.Load read it from the store
InitOf(list, dflt, cb, cfg) ==
  /\ apps = list
  /\ onAdvance = cb
  /\ currentIndex = 0
  /\ enabled \in BOOLEAN
  /\ defaultDwell = dflt
  /\ skipCh = 0
  /\ updateCh = 1
  /\ pc = "idle"
  /\ lastAdvanceZero = TRUE
  /\ elapsed = 0
  /\ currentDwell = 0
  /\ inflight = EmptyBag
  /\ brightness = InitBrightness
  /\ currentFrame \in IF cb THEN { SetFrame("startup"), NilFrame } ELSE { NilFrame }
  /\ notifyQueue = <<>>
  /\ config = cfg
  /\ disk = cfg
  /\ peer = NewPeer(cfg)
  /\ sync = AtRest
  /\ ret = "nil"
  /\ stopCh = [m |-> "open", d |-> "open"]
  /\ call = <<>>
  /\ timers = EmptyBag
  /\ hist = NoHist
  /\ mark = 0
  /\ activeMark = 0
  /\ skipBurst = 0
  /\ lastAdv = [by |-> "none", en |-> TRUE, onError |-> FALSE, burst |-> 0]

InitWith(list, dflt, cb) == dims = DefaultDims /\ InitOf(list, dflt, cb, BaseConfig)

\* a Manager on its own, as NewManager and SetApps leave it
Init == \E list \in AppLists, dflt \in DefaultDwells : InitWith(list, dflt, FALSE)

\* ------------------------------------------------ rotation.Manager, actions
SetApps(list) ==
  /\ ~MuHeld
  /\ apps' = list
  /\ currentIndex' = SetAppsIndex(list, currentIndex)
  /\ updateCh' = NotifyUpdate(updateCh)
  /\ UNCHANGED << enabled, defaultDwell, skipCh, onAdvance, loopVars, dispVars, obsVars, apiVars >>

AddApp(app) ==
  /\ ~MuHeld
  /\ Len(apps) < MaxApps
  /\ apps' = Append(apps, app)
  /\ updateCh' = NotifyUpdate(updateCh)
  /\ UNCHANGED << currentIndex, enabled, defaultDwell, skipCh, onAdvance, loopVars, dispVars, obsVars, apiVars >>

\* the branch of RemoveApp that finds the ID (the other one changes nothing)
RemoveApp(id) ==
  /\ ~MuHeld
  /\ FirstMatch(apps, id, 1) > 0
  /\ apps' = RemoveAt(apps, FirstMatch(apps, id, 1))
  /\ currentIndex' = RemoveAppIndex(apps', currentIndex)
  /\ updateCh' = NotifyUpdate(updateCh)
  /\ UNCHANGED << enabled, defaultDwell, skipCh, onAdvance, loopVars, dispVars, obsVars, apiVars >>

SetEnabled(b) ==
  /\ ~MuHeld
  /\ enabled' = b
  /\ UNCHANGED << apps, currentIndex, defaultDwell, skipCh, updateCh, onAdvance,
                  loopVars, dispVars, obsVars, apiVars >>

Skip ==
  /\ skipCh' = SkipSend(skipCh)
  /\ skipBurst' = Min(skipBurst + 1, MaxSkipBurst)
  /\ UNCHANGED << apps, currentIndex, enabled, defaultDwell, updateCh, onAdvance,
                  loopVars, dispVars, mark, activeMark, lastAdv, apiVars >>

\* advance(), called by the loop for the reason `by`: under m.mu it moves
\* currentIndex and starts "go m.onAdvance(app)" with the entry it stopped on
SpawnHoldingMu(list, idx) == SetToBag({ [app |-> list[idx + 1], locks |-> { "m.mu" }] })
SpawnQueued(list, idx) ==
  SetToBag({ [app |-> IF notifyQueue = << >> THEN list[idx + 1]
                      ELSE AppEntry("notification", 0, TRUE),
              locks |-> {}] })
Spawn(list, idx) == SetToBag({ [app |-> list[idx + 1], locks |-> {}] })

Advance(by) ==
  /\ ~MuHeld
  /\ BagCardinality(inflight) < MaxInflight
  /\ currentIndex' = AdvanceIndex(apps, currentIndex)
  /\ inflight' = IF Len(apps) = 0 \/ ~onAdvance THEN inflight
                 ELSE inflight (+) Spawn(apps, currentIndex')
  /\ lastAdv' = [by |-> by, en |-> enabled, onError |-> currentFrame.AppName = "error",
                 burst |-> IF by = "skip" THEN skipBurst ELSE 0]
  /\ mark' = 0
  /\ activeMark' = 0

\* -------------------------------------------------------- Manager.Run
\* "go m.Run()"; Display.Start then calls renderApp with CurrentApp(), if any
Start ==
  /\ pc = "idle"
  /\ pc' = "select"
  /\ inflight' = IF onAdvance /\ CurrentApp # <<>>
                 THEN inflight (+) SetToBag({ [app |-> CurrentApp[1], locks |-> {}] })
                 ELSE inflight
  /\ UNCHANGED << mgrVars, lastAdvanceZero, elapsed, currentDwell, currentFrame, obsVars, apiVars >>

\* case <-m.skipCh: m.advance()
RunSkip ==
  /\ pc = "select"
  /\ skipCh > 0
  /\ skipCh' = skipCh - 1
  /\ skipBurst' = 0
  /\ Advance("skip")
  /\ pc' = "skipAfter"
  /\ UNCHANGED << apps, enabled, defaultDwell, updateCh, onAdvance,
                  lastAdvanceZero, elapsed, currentDwell, currentFrame, apiVars >>

\* ... lastAdvance = time.Now(); currentDwell = m.getCurrentDwell()
RunSkipAfterNoReset ==
  /\ pc = "skipAfter"
  /\ ~MuHeld
  /\ currentDwell' = GetCurrentDwell(apps, currentIndex, defaultDwell)
  /\ pc' = "select"
  /\ UNCHANGED << mgrVars, lastAdvanceZero, elapsed, dispVars, obsVars, apiVars >>

RunSkipAfter ==
  /\ pc = "skipAfter"
  /\ ~MuHeld
  /\ lastAdvanceZero' = FALSE
  /\ elapsed' = 0
  /\ currentDwell' = GetCurrentDwell(apps, currentIndex, defaultDwell)
  /\ pc' = "select"
  /\ UNCHANGED << mgrVars, dispVars, obsVars, apiVars >>

\* case <-m.updateCh: currentDwell = m.getCurrentDwell()
RunUpdate ==
  /\ pc = "select"
  /\ updateCh > 0
  /\ ~MuHeld
  /\ updateCh' = updateCh - 1
  /\ currentDwell' = GetCurrentDwell(apps, currentIndex, defaultDwell)
  /\ UNCHANGED << apps, currentIndex, enabled, defaultDwell, skipCh, onAdvance,
                  pc, lastAdvanceZero, elapsed, dispVars, obsVars, apiVars >>

\* case <-ticker.C: 100 ms have passed; if !m.IsEnabled() { continue }
TickElapsedFrozen(en, el) == IF en THEN Min(el + 1, ElapsedCap) ELSE el
TickElapsed(en, el) == Min(el + 1, ElapsedCap)

RunTick ==
  /\ pc = "select"
  /\ ~MuHeld
  /\ elapsed' = TickElapsed(enabled, elapsed)
  /\ mark' = Min(mark + 1, ElapsedCap)
  /\ activeMark' = IF enabled THEN Min(activeMark + 1, ElapsedCap) ELSE activeMark
  /\ pc' = IF enabled THEN "tickCheck" ELSE "select"
  /\ UNCHANGED << mgrVars, lastAdvanceZero, currentDwell, dispVars, skipBurst, lastAdv, apiVars >>

\* ... if currentDwell == 0 { currentDwell = m.getCurrentDwell(); lastAdvance = time.Now() }
\*     if time.Since(lastAdvance) >= currentDwell {
RunTickCheck ==
  /\ pc = "tickCheck"
  /\ currentDwell = 0 => ~MuHeld
  /\ IF currentDwell = 0
     THEN /\ currentDwell' = GetCurrentDwell(apps, currentIndex, defaultDwell)
          /\ lastAdvanceZero' = FALSE
          /\ elapsed' = 0
     ELSE UNCHANGED << currentDwell, lastAdvanceZero, elapsed >>
  /\ pc' = IF DwellElapsed(lastAdvanceZero', elapsed', currentDwell')
           THEN "tickAdvance" ELSE "select"
  /\ UNCHANGED << mgrVars, dispVars, obsVars, apiVars >>

\* ...     m.advance()
RunTickAdvance ==
  /\ pc = "tickAdvance"
  /\ Advance("tick")
  /\ pc' = "tickAfter"
  /\ UNCHANGED << apps, enabled, defaultDwell, skipCh, updateCh, onAdvance,
                  lastAdvanceZero, elapsed, currentDwell, currentFrame, skipBurst, apiVars >>

\* ...     lastAdvance = time.Now(); currentDwell = m.getCurrentDwell() }
RunTickAfter ==
  /\ pc = "tickAfter"
  /\ ~MuHeld
  /\ lastAdvanceZero' = FALSE
  /\ elapsed' = 0
  /\ currentDwell' = GetCurrentDwell(apps, currentIndex, defaultDwell)
  /\ pc' = "select"
  /\ UNCHANGED << mgrVars, dispVars, obsVars, apiVars >>

\* ----------------------------------------------------- display.Display
\* renderApp(app), the body of a callback goroutine, from the renderer's answer on:
\*   "ok"     RenderApp succeeded: setFrame stores the app's frame
\*   "error"  RenderApp failed, renderErrorScreen's RenderSource succeeded
\*   "failed" both renders failed: RenderSource returns the error, nothing is stored
RenderOutcomes == { "ok", "error", "failed" }

RenderedFrame(app, outcome, old) ==
  CASE outcome = "ok"     -> SetFrame(app.ID)
    [] outcome = "error"  -> SetFrame("error")
    [] outcome = "failed" -> old

\* GetFrame: a copy of d.currentFrame whose DwellSecs and Brightness are read
\* from the config and the Manager, or the test pattern when it is nil
GetFrame ==
  IF currentFrame = NilFrame THEN generateTestPattern
  ELSE [currentFrame EXCEPT !.DwellSecs = defaultDwell \div 1000,
                            !.Brightness = brightness]

\* RenderSource(appID, ...): the outcomes of RenderAppFromSource
SourceOutcomes == { "ok", "failed" }

RenderSource(appID, outcome, old) == IF outcome = "ok" THEN SetFrame(appID) ELSE old

\* ------------------------------------- rotation.Manager, notifications
\* Created stands for time.Now(): the number of the push
Notification(created, prio, dur) ==
  [Created |-> created, Priority |-> prio, Duration |-> dur]

\* PushNotification: the loop "for i, existing := range m.notifyQueue" from
\* position i, and the append when it inserted nothing
RECURSIVE InsertFrom(_, _, _)
InsertFrom(q, n, i) ==
  IF i > Len(q) THEN Append(q, n)
  ELSE IF n.Priority > q[i].Priority
       THEN SubSeq(q, 1, i - 1) \o << n >> \o SubSeq(q, i, Len(q))
       ELSE InsertFrom(q, n, i + 1)

PushQueueAppend(q, n) == Append(q, n)
PushQueue(q, n) == InsertFrom(q, n, 1)

\* ClearNotifications: the loop "for _, n := range m.notifyQueue" from position
\* i, with what it has appended to `sticky` so far
RECURSIVE ClearFrom(_, _, _)
ClearFrom(q, i, sticky) ==
  IF i > Len(q) THEN sticky
  ELSE IF q[i].Priority = PrioritySticky
       THEN ClearFrom(q, i + 1, Append(sticky, q[i]))
       ELSE ClearFrom(q, i + 1, sticky)

ClearQueueAll(q) == << >>
ClearQueue(q) == ClearFrom(q, 1, << >>)

PushNotification(prio, dur) ==
  /\ call = <<>>
  /\ ~MuHeld
  /\ hist.pushes < MaxPushes
  /\ notifyQueue' = PushQueue(notifyQueue, Notification(hist.pushes + 1, prio, dur))
  /\ updateCh' = NotifyUpdate(updateCh)
  /\ hist' = [hist EXCEPT !.pushes = @ + 1]
  /\ UNCHANGED << apps, currentIndex, enabled, defaultDwell, skipCh, onAdvance,
                  loopVars, dispVars, obsVars, brightness, config, disk, call, timers, extVars >>

ClearNotifications ==
  /\ call = <<>>
  /\ ~MuHeld
  /\ notifyQueue' = ClearQueue(notifyQueue)
  /\ UNCHANGED << mgrVars, loopVars, dispVars, obsVars, brightness, config, disk,
                  call, timers, hist, extVars >>

\* ------------------------------------------- display.Display, the API
\* One Display method runs at a time (call holds its frame); the loop, the
\* callbacks and the ShowApp timers run between its steps.

\* the apps the repository d.apps holds, and an ID it does not hold
Installed == AppIds
UnknownIds == { "x" }

\* "app := d.apps.Get(appID); if app == nil": the ID is refused
NeverRejected(id) == FALSE
NotInstalled(id) == id \notin Installed

\* Config.Save: the file takes the fields in memory when the write succeeds
SaveDropped(cfg, old, saved) == old
Save(cfg, old, saved) == IF saved THEN cfg ELSE old

\* "return c.Save()" in the Config setter and "return d.config.SetX(...)" in the
\* Display method: the caller gets what Save returned
ReturnedNil(saved) == "nil"
Returned(saved) == IF saved THEN "nil" ELSE "error"

\* the observer's record of a call that changes m.enabled and is not a ShowApp
\* with a timer
Other ==
  [hist EXCEPT !.cycle = "none", !.before = NoHist.before, !.shows = NoHist.shows]

\* SetRotationEnabled: rotation.SetEnabled, then Config.SetRotationEnabled
SetRotationEnabled(b, saved) ==
  /\ call = <<>>
  /\ ~MuHeld
  /\ enabled' = b
  /\ config' = [config EXCEPT !.RotationEnabled = b]
  /\ disk' = Save(config', disk, saved)
  /\ hist' = Other
  /\ ret' = Returned(saved)
  /\ UNCHANGED << apps, currentIndex, defaultDwell, skipCh, updateCh, onAdvance,
                  loopVars, dispVars, obsVars, brightness, notifyQueue, call, timers, peer, sync, dims, stopCh >>

\* Display.SetBrightness: rotation.SetBrightness, then Config.SetBrightness,
\* which stores the value as given and saves
SetBrightness(b, saved) ==
  /\ call = <<>>
  /\ ~MuHeld
  /\ brightness' = ClampBrightness(b)
  /\ config' = [config EXCEPT !.Brightness = b]
  /\ disk' = Save(config', disk, saved)
  /\ ret' = Returned(saved)
  /\ UNCHANGED << mgrVars, loopVars, dispVars, obsVars, notifyQueue, call, timers, hist, peer, sync, dims, stopCh >>

\* SetPower(on), first statement: d.rotation.SetEnabled(false), or
\* d.rotation.SetEnabled(d.config.RotationEnabled)
PowerOnEnabledFromDisk(cfg, dsk) == dsk.RotationEnabled
PowerOnEnabled(cfg, dsk) == cfg.RotationEnabled

SetPowerBegin(on) ==
  /\ call = <<>>
  /\ ~MuHeld
  /\ enabled' = IF on THEN PowerOnEnabled(config, disk) ELSE FALSE
  /\ call' = << [op |-> "SetPower", on |-> on, at |-> "enabled"] >>
  /\ hist' = IF on
             THEN [hist EXCEPT !.cycle = IF hist.cycle = "off" THEN "on" ELSE "none",
                               !.before = IF hist.cycle = "off" THEN @ ELSE NoHist.before,
                               !.shows = NoHist.shows]
             ELSE [hist EXCEPT !.cycle = "off",
                               !.before = [enabled |-> enabled, name |-> currentFrame.AppName],
                               !.shows = NoHist.shows]
  /\ UNCHANGED << apps, currentIndex, defaultDwell, skipCh, updateCh, onAdvance,
                  loopVars, dispVars, obsVars, brightness, notifyQueue, config, disk,
                  timers, extVars >>

\* SetPower(false), the rest: renderBlankScreen, then d.config.SetPower(false)
SetPowerOff(saved) ==
  /\ call # <<>>
  /\ call[1].op = "SetPower" /\ ~call[1].on
  /\ ~DMuHeld
  /\ currentFrame' = renderBlankScreen
  /\ config' = [config EXCEPT !.PowerOn = FALSE]
  /\ disk' = Save(config', disk, saved)
  /\ call' = <<>>
  /\ ret' = Returned(saved)
  /\ UNCHANGED << mgrVars, loopVars, inflight, obsVars, brightness, notifyQueue,
                  timers, hist, peer, sync, dims, stopCh >>

\* SetPower(true): app := d.rotation.CurrentApp()
SetPowerOnSelect ==
  /\ call # <<>>
  /\ call[1].op = "SetPower" /\ call[1].on /\ call[1].at = "enabled"
  /\ ~MuHeld
  /\ call' = << [op |-> "SetPower", on |-> TRUE, at |-> "render", target |-> CurrentApp] >>
  /\ UNCHANGED << mgrVars, loopVars, dispVars, obsVars, brightness, notifyQueue,
                  config, disk, timers, hist, extVars >>

\* SetPower(true), the rest: d.renderApp(*app) or d.renderStartupScreen(), then
\* d.config.SetPower(true)
SetPowerOn(outcome, saved) ==
  /\ call # <<>>
  /\ call[1].op = "SetPower" /\ call[1].on /\ call[1].at = "render"
  /\ outcome # "failed" => ~MuHeld /\ ~DMuHeld
  /\ call[1].target = <<>> => outcome \in SourceOutcomes
  /\ currentFrame' = IF call[1].target = <<>>
                     THEN RenderSource("startup", outcome, currentFrame)
                     ELSE RenderedFrame(call[1].target[1], outcome, currentFrame)
  /\ config' = [config EXCEPT !.PowerOn = TRUE]
  /\ disk' = Save(config', disk, saved)
  /\ call' = <<>>
  /\ ret' = Returned(saved)
  /\ UNCHANGED << mgrVars, loopVars, inflight, obsVars, brightness, notifyQueue,
                  timers, hist, peer, sync, dims, stopCh >>

\* ShowApp(appID, durationSecs) for an installed app:
\* wasEnabled := d.rotation.IsEnabled()
ShowAppBegin(id, d) ==
  /\ call = <<>>
  /\ ~NotInstalled(id)
  /\ ~MuHeld
  /\ d > 0 => BagCardinality(timers) < MaxTimers
  /\ call' = << [op |-> "ShowApp", id |-> id, d |-> d, wasEnabled |-> enabled,
                 at |-> "read"] >>
  /\ hist' = IF d > 0 /\ timers = EmptyBag
             THEN [hist EXCEPT !.cycle = "none",
                               !.before = NoHist.before,
                               !.shows = [e0 |-> enabled, n |-> 1, fired |-> 0]]
             ELSE IF d > 0 /\ hist.shows.n = 1 /\ hist.shows.fired = 0
             THEN [hist EXCEPT !.cycle = "none",
                               !.before = NoHist.before,
                               !.shows.n = 2]
             ELSE Other
  /\ UNCHANGED << mgrVars, loopVars, dispVars, obsVars, brightness, notifyQueue,
                  config, disk, timers, extVars >>

\* ... d.rotation.SetEnabled(false)
ShowAppDisable ==
  /\ call # <<>>
  /\ call[1].op = "ShowApp" /\ call[1].at = "read"
  /\ ~MuHeld
  /\ enabled' = FALSE
  /\ call' = << [call[1] EXCEPT !.at = "render"] >>
  /\ UNCHANGED << apps, currentIndex, defaultDwell, skipCh, updateCh, onAdvance,
                  loopVars, dispVars, obsVars, brightness, notifyQueue, config, disk,
                  timers, hist, extVars >>

\* ... d.renderApp(entry); if durationSecs > 0 { go func() { time.Sleep ... }() }
ShowAppTimerAwaited(d, was) == EmptyBag
ShowAppTimer(d, was) ==
  IF d > 0 THEN SetToBag({ [wasEnabled |-> was] }) ELSE EmptyBag

ShowAppRender(outcome) ==
  /\ call # <<>>
  /\ call[1].op = "ShowApp" /\ call[1].at = "render"
  /\ outcome # "failed" => ~MuHeld /\ ~DMuHeld
  /\ currentFrame' = RenderedFrame(AppEntry(call[1].id, 0, FALSE), outcome, currentFrame)
  /\ timers' = timers (+) ShowAppTimer(call[1].d, call[1].wasEnabled)
  /\ call' = <<>>
  /\ ret' = "nil"
  /\ UNCHANGED << mgrVars, loopVars, inflight, obsVars, brightness, notifyQueue,
                  config, disk, hist, peer, sync, dims, stopCh >>

\* the detached goroutine wakes: d.rotation.SetEnabled(wasEnabled), whatever the
\* flag cur has become
RestoredFlagUnlessEnabled(t, cur) == IF cur THEN cur ELSE t.wasEnabled
RestoredFlag(t, cur) == t.wasEnabled

Restore(t) ==
  /\ BagIn(t, timers)
  /\ ~MuHeld
  /\ enabled' = RestoredFlag(t, enabled)
  /\ timers' = timers (-) SetToBag({ t })
  /\ hist' = [hist EXCEPT !.cycle = "none",
                          !.before = NoHist.before,
                          !.shows = IF @.n > 0 THEN [@ EXCEPT !.fired = @ + 1] ELSE @]
  /\ UNCHANGED << apps, currentIndex, defaultDwell, skipCh, updateCh, onAdvance,
                  loopVars, dispVars, obsVars, brightness, notifyQueue, config, disk,
                  call, extVars >>

\* PushText: d.rotation.PushNotification(notification)
PushTextBegin(prio, dur) ==
  /\ call = <<>>
  /\ ~MuHeld
  /\ hist.pushes < MaxPushes
  /\ notifyQueue' = PushQueue(notifyQueue, Notification(hist.pushes + 1, prio, dur))
  /\ updateCh' = NotifyUpdate(updateCh)
  /\ call' = << [op |-> "PushText", at |-> "render", created |-> hist.pushes + 1] >>
  /\ hist' = [hist EXCEPT !.pushes = @ + 1]
  /\ UNCHANGED << apps, currentIndex, enabled, defaultDwell, skipCh, onAdvance,
                  loopVars, dispVars, obsVars, brightness, config, disk, timers, extVars >>

\* ... d.RenderSource("notification", []byte(source), nil), the error dropped
PushTextRenderQueued(outcome, old) ==
  IF outcome = "ok" /\ notifyQueue[1].Created = hist.pushes
  THEN SetFrame("notification")
  ELSE old
PushTextRendered(outcome, old) == RenderSource("notification", outcome, old)

PushTextRender(outcome) ==
  /\ call # <<>>
  /\ call[1].op = "PushText"
  /\ outcome = "ok" => ~MuHeld /\ ~DMuHeld
  /\ currentFrame' = PushTextRendered(outcome, currentFrame)
  /\ call' = <<>>
  /\ hist' = IF outcome = "ok" THEN [hist EXCEPT !.text = call[1].created]
             ELSE hist
  /\ UNCHANGED << mgrVars, loopVars, inflight, obsVars, brightness, notifyQueue,
                  config, disk, timers, extVars >>

\* setFrame reads the brightness through Manager.GetBrightness, under m.mu
RenderAppFatal(g, outcome) ==
  /\ BagIn(g, inflight)
  /\ outcome # "failed" => ~MuHeld /\ ~DMuHeld
  /\ currentFrame' = RenderedFrame(g.app, outcome, currentFrame)
  /\ inflight' = inflight (-) SetToBag({ g })
  /\ pc' = IF outcome = "ok" THEN pc ELSE "stopped"
  /\ UNCHANGED << mgrVars, lastAdvanceZero, elapsed, currentDwell, obsVars, apiVars >>

RenderApp(g, outcome) ==
  /\ BagIn(g, inflight)
  /\ outcome # "failed" => ~MuHeld /\ ~DMuHeld
  /\ currentFrame' = RenderedFrame(g.app, outcome, currentFrame)
  /\ inflight' = inflight (-) SetToBag({ g })
  /\ UNCHANGED << mgrVars, loopVars, obsVars, apiVars >>

\* ------------------------------------------------------------------ Next
Next ==
  \/ \E list \in AppLists : SetApps(list)
  \/ \E app \in AppEntries : AddApp(app)
  \/ \E id \in AppIds : RemoveApp(id)
  \/ \E b \in BOOLEAN : SetEnabled(b)
  \/ Skip
  \/ Start
  \/ RunSkip
  \/ RunSkipAfter
  \/ RunUpdate
  \/ RunTick
  \/ RunTickCheck
  \/ RunTickAdvance
  \/ RunTickAfter

Spec == Init /\ [][Next]_vars

\* a Manager whose list is only ever replaced as a whole, while its loop runs
\* and skips are asked for
ReplaceNext ==
  \/ \E list \in AppLists : SetApps(list)
  \/ Skip
  \/ Start
  \/ RunSkip
  \/ RunSkipAfter
  \/ RunUpdate
  \/ RunTick
  \/ RunTickCheck
  \/ RunTickAdvance
  \/ RunTickAfter

ReplaceSpec == Init /\ [][ReplaceNext]_vars

\* a Display: the state NewDisplay leaves (renderApp registered as the callback,
\* the startup screen stored if its render succeeded), and its operations
DisplayInit ==
  \E list \in DisplayLists, dflt \in DefaultDwells : InitWith(list, dflt, TRUE)

DisplayNext ==
  \/ \E list \in DisplayLists : SetApps(list)
  \/ \E b \in BOOLEAN : SetEnabled(b)
  \/ Skip
  \/ Start
  \/ RunSkip
  \/ RunSkipAfter
  \/ RunUpdate
  \/ RunTick
  \/ RunTickCheck
  \/ RunTickAdvance
  \/ RunTickAfter
  \/ \E g \in BagToSet(inflight), outcome \in RenderOutcomes : RenderApp(g, outcome)

DisplaySpec == DisplayInit /\ [][DisplayNext]_vars

\* the scenario of the spec's section 8: NewManager(5000 ms), SetApps([a, b, c]),
\* rotation enabled, Run; nothing else is called
ScenarioInit == InitWith(ScenarioApps, ScenarioDwell, FALSE) /\ enabled = TRUE

ScenarioNext ==
  \/ Start
  \/ RunUpdate
  \/ RunTick
  \/ RunTickCheck
  \/ RunTickAdvance
  \/ RunTickAfter

ScenarioSpec == ScenarioInit /\ [][ScenarioNext]_vars

\* a Display whose renderer fails every app it is given (the error screen goes
\* through the same renderer: it may come out, or fail as well)
FailingOutcomes == RenderOutcomes \ { "ok" }

FailingInit ==
  \E list \in DisplayLists, dflt \in DefaultDwells : InitWith(list, dflt, TRUE)

FailingNext ==
  \/ \E b \in BOOLEAN : SetEnabled(b)
  \/ Skip
  \/ Start
  \/ RunSkip
  \/ RunSkipAfter
  \/ RunUpdate
  \/ RunTick
  \/ RunTickCheck
  \/ RunTickAdvance
  \/ RunTickAfter
  \/ \E g \in BagToSet(inflight), outcome \in FailingOutcomes : RenderApp(g, outcome)

FailingSpec == FailingInit /\ [][FailingNext]_vars

\* the steps of Manager.Run and of the callbacks it starts; the skip case of
\* the select is listed by the specifications in which Skip is called (without
\* a call of Skip the skip channel stays empty and the case is never taken)
LoopNext ==
  \/ Start
  \/ RunUpdate
  \/ RunTick
  \/ RunTickCheck
  \/ RunTickAdvance
  \/ RunTickAfter
  \/ \E g \in BagToSet(inflight), outcome \in RenderOutcomes : RenderApp(g, outcome)

\* a Display whose power and rotation preference are switched, and whose
\* rotation ShowApp pauses for good (duration 0)
PowerInit ==
  /\ \E list \in PowerLists, dflt \in DefaultDwells : InitWith(list, dflt, TRUE)
  /\ enabled = config.RotationEnabled

PowerNext ==
  \/ \E b \in BOOLEAN, saved \in BOOLEAN : SetRotationEnabled(b, saved)
  \/ \E on \in BOOLEAN : SetPowerBegin(on)
  \/ \E saved \in BOOLEAN : SetPowerOff(saved)
  \/ SetPowerOnSelect
  \/ \E outcome \in RenderOutcomes, saved \in BOOLEAN : SetPowerOn(outcome, saved)
  \/ \E id \in ShowIds : ShowAppBegin(id, 0)
  \/ ShowAppDisable
  \/ \E outcome \in RenderOutcomes : ShowAppRender(outcome)
  \/ LoopNext

PowerSpec == PowerInit /\ [][PowerNext]_vars

\* a Display with a default dwell of whole seconds that is powered off and on
BlankInit ==
  /\ InitWith(<< AppEntry("a", 0, TRUE) >>, BlankDwell, TRUE)
  /\ enabled = config.RotationEnabled

BlankNext ==
  \/ \E on \in BOOLEAN : SetPowerBegin(on)
  \/ SetPowerOff(TRUE)
  \/ SetPowerOnSelect
  \/ \E outcome \in RenderOutcomes : SetPowerOn(outcome, TRUE)
  \/ LoopNext

BlankSpec == BlankInit /\ [][BlankNext]_vars

\* a Display whose rotation ShowApp pauses, for good or for a while, while the
\* rotation preference and the power are switched (every save succeeding)
ShowInit ==
  /\ \E dflt \in DefaultDwells : InitWith(<< AppEntry("a", 0, TRUE) >>, dflt, TRUE)
  /\ enabled = config.RotationEnabled

ShowNext ==
  \/ \E id \in ShowIds, d \in ShowDurations : ShowAppBegin(id, d)
  \/ ShowAppDisable
  \/ \E outcome \in RenderOutcomes : ShowAppRender(outcome)
  \/ \E t \in BagToSet(timers) : Restore(t)
  \/ \E b \in BOOLEAN : SetRotationEnabled(b, TRUE)
  \/ SetPowerBegin(FALSE)
  \/ SetPowerOff(TRUE)
  \/ LoopNext

ShowSpec == ShowInit /\ [][ShowNext]_vars

\* a Display whose Manager is sent notifications while the loop runs
NotifyInit ==
  /\ \E dflt \in DefaultDwells : InitWith(<< AppEntry("a", 0, TRUE) >>, dflt, TRUE)
  /\ enabled = config.RotationEnabled

NotifyNext ==
  \/ \E prio \in Priorities, dur \in TextDurations : PushNotification(prio, dur)
  \/ ClearNotifications
  \/ Skip
  \/ RunSkip
  \/ RunSkipAfter
  \/ LoopNext

NotifySpec == NotifyInit /\ [][NotifyNext]_vars

\* a Display that is sent text notifications, next to direct pushes
TextNext ==
  \/ \E prio \in Priorities, dur \in TextDurations : PushTextBegin(prio, dur)
  \/ \E outcome \in SourceOutcomes : PushTextRender(outcome)
  \/ \E prio \in Priorities, dur \in TextDurations : PushNotification(prio, dur)
  \/ LoopNext

TextSpec == NotifyInit /\ [][TextNext]_vars

\* ------------------------------------------------ two Displays, one config
\* handleRegisterDisplay hands every Display the server's one *config.Config.
\* The Display of the variables above is B; peer is A.  A's loop is left out:
\* its methods are taken with A at rest, each as one step.

\* A.SetPower(on)
PeerSetPower(on, outcome, saved) ==
  /\ peer' = [peer EXCEPT
                !.enabled = IF on THEN config.RotationEnabled ELSE FALSE,
                !.frame   = IF ~on THEN "off"
                            ELSE IF outcome # "ok" THEN @
                            ELSE IF CurrentAppOf(peer.apps, 0) = << >> THEN "startup"
                            ELSE CurrentAppOf(peer.apps, 0)[1].ID]
  /\ config' = [config EXCEPT !.PowerOn = on]
  /\ disk' = Save(config', disk, saved)
  /\ UNCHANGED << mgrVars, loopVars, dispVars, obsVars, brightness, notifyQueue,
                  call, timers, hist, sync, dims, ret, stopCh >>

\* A.SetRotationEnabled(b)
PeerSetRotationEnabled(b, saved) ==
  /\ peer' = [peer EXCEPT !.enabled = b]
  /\ config' = [config EXCEPT !.RotationEnabled = b]
  /\ disk' = Save(config', disk, saved)
  /\ UNCHANGED << mgrVars, loopVars, dispVars, obsVars, brightness, notifyQueue,
                  call, timers, hist, sync, dims, ret, stopCh >>

\* A.SetBrightness(b)
PeerSetBrightness(b, saved) ==
  /\ peer' = [peer EXCEPT !.brightness = ClampBrightness(b)]
  /\ config' = [config EXCEPT !.Brightness = b]
  /\ disk' = Save(config', disk, saved)
  /\ UNCHANGED << mgrVars, loopVars, dispVars, obsVars, brightness, notifyQueue,
                  call, timers, hist, sync, dims, ret, stopCh >>

\* A.SetRotationApps(list)
PeerSetRotationApps(list, saved) ==
  /\ peer' = [peer EXCEPT !.apps = list]
  /\ config' = [config EXCEPT !.Apps = list]
  /\ disk' = Save(config', disk, saved)
  /\ UNCHANGED << mgrVars, loopVars, dispVars, obsVars, brightness, notifyQueue,
                  call, timers, hist, sync, dims, ret, stopCh >>

\* A.ShowApp(id, 0) for an installed app
PeerShowApp(id, outcome) ==
  /\ peer' = [peer EXCEPT !.enabled = FALSE,
                          !.frame = IF outcome = "ok" THEN id ELSE @]
  /\ UNCHANGED << mgrVars, loopVars, dispVars, obsVars, brightness, notifyQueue,
                  config, disk, call, timers, hist, sync, dims, ret, stopCh >>

\* A.PushText
PeerPushText(outcome) ==
  /\ peer.pushes < MaxPeerPushes
  /\ peer' = [peer EXCEPT !.pushes = @ + 1,
                          !.frame = IF outcome = "ok" THEN "notification" ELSE @]
  /\ UNCHANGED << mgrVars, loopVars, dispVars, obsVars, brightness, notifyQueue,
                  config, disk, call, timers, hist, sync, dims, ret, stopCh >>

\* A.Skip
PeerSkip ==
  /\ peer' = [peer EXCEPT !.skipCh = SkipSend(@)]
  /\ UNCHANGED << mgrVars, loopVars, dispVars, obsVars, brightness, notifyQueue,
                  config, disk, call, timers, hist, sync, dims, ret, stopCh >>

\* B runs its rotation while A is operated (every save succeeding)
PairInit ==
  /\ dims = DefaultDims
  /\ \E dflt \in DefaultDwells :
       InitOf(<< AppEntry("a", 0, TRUE) >>, dflt, TRUE,
              [ RotationEnabled |-> TRUE, PowerOn |-> TRUE, Brightness |-> InitBrightness,
                Apps |-> << AppEntry("a", 0, TRUE) >> ])
  /\ enabled = config.RotationEnabled

PairNext ==
  \/ \E on \in BOOLEAN, outcome \in SourceOutcomes : PeerSetPower(on, outcome, TRUE)
  \/ \E b \in BOOLEAN : PeerSetRotationEnabled(b, TRUE)
  \/ \E b \in PeerBrightness : PeerSetBrightness(b, TRUE)
  \/ \E list \in PeerLists : PeerSetRotationApps(list, TRUE)
  \/ \E id \in ShowIds, outcome \in SourceOutcomes : PeerShowApp(id, outcome)
  \/ \E outcome \in SourceOutcomes : PeerPushText(outcome)
  \/ PeerSkip
  \/ LoopNext

PairSpec == PairInit /\ [][PairNext]_vars

\* ------------------------------------------- the goroutines and their locks
\* Each method is the sequence of its lock operations, channel sends and go
\* statements, in program order; a goroutine runs one operation per step.
Lock(x)    == [op |-> "Lock", arg |-> x]
Unlock(x)  == [op |-> "Unlock", arg |-> x]
RLock(x)   == [op |-> "RLock", arg |-> x]
RUnlock(x) == [op |-> "RUnlock", arg |-> x]
Go(t)      == [op |-> "go", arg |-> t]
Send(c)    == [op |-> "send", arg |-> c]
\* d.currentFrame = &FrameData{...}; a read of d.currentFrame.<field>; the test
\* "d.currentFrame == nil"
Store(n)   == [op |-> "store", arg |-> n]
Load(f)    == [op |-> "load", arg |-> f]
IsNil      == [op |-> "nil?", arg |-> "d.currentFrame"]

\* the lock operations, sends and go statements of a program
SyncOpsOf(prog) == SelectSeq(prog, LAMBDA i : i.op \notin { "store", "load", "nil?" })

\* IsEnabled, GetBrightness, GetApps, CurrentApp, getCurrentDwell
ReadOps == << RLock("m.mu"), RUnlock("m.mu") >>
\* SetEnabled, SetBrightness, OnAdvance; advance on an empty list
WriteOps == << Lock("m.mu"), Unlock("m.mu") >>
\* SetApps, AddApp, RemoveApp, PushNotification: notifyUpdate under m.mu
MutatorOps == << Lock("m.mu"), Send("update"), Unlock("m.mu") >>
\* Manager.Skip
SkipOps == << Send("skip") >>
\* setFrame: under d.mu a new FrameData is built (d.rotation.GetBrightness()
\* takes m.mu) and d.currentFrame is pointed at it
setFrameSteps(n) == << Lock("d.mu") >> \o ReadOps \o << Store(n), Unlock("d.mu") >>
setFrameOps == SyncOpsOf(setFrameSteps("a"))
renderBlankScreenSteps == << Lock("d.mu"), Store("off"), Unlock("d.mu") >>
renderBlankScreenOps == SyncOpsOf(renderBlankScreenSteps)
\* renderApp and RenderSource: setFrame when a render succeeded, nothing otherwise
RenderOps == { setFrameOps, << >> }
\* GetFrame: under d.mu's read lock, the test pattern when nothing is stored,
\* or else a FrameData filled field by field from d.currentFrame, the
\* brightness from d.rotation.GetBrightness()
GetFrameUnlocked ==
  << IsNil, Load("Pixels"), Load("FrameCount"), Load("DelayMs") >>
    \o ReadOps \o << Load("AppName") >>
GetFrameSteps ==
  << RLock("d.mu"), IsNil, Load("Pixels"), Load("FrameCount"), Load("DelayMs") >>
    \o ReadOps \o << Load("AppName"), RUnlock("d.mu") >>
GetFrameOps == { << RLock("d.mu"), RUnlock("d.mu") >>, SyncOpsOf(GetFrameSteps) }
\* advance: "go m.onAdvance(app)" under m.mu
advanceInlineOps == << Lock("m.mu") >> \o setFrameOps \o << Unlock("m.mu") >>
advanceOps == << Lock("m.mu"), Go("cb"), Unlock("m.mu") >>

\* Manager.Run, one iteration: what follows the receive of the select
SkipCaseOps == { advanceOps \o ReadOps, WriteOps \o ReadOps }
UpdateCaseOps == { ReadOps }
TickCaseOps ==
  { ReadOps, ReadOps \o ReadOps,
    ReadOps \o advanceOps \o ReadOps, ReadOps \o ReadOps \o advanceOps \o ReadOps }

\* the Display's methods (the Config's own lock is not one of the two)
ApiOps ==
  { WriteOps \o renderBlankScreenOps }                          \* SetPower(false)
  \cup { WriteOps \o ReadOps \o r : r \in RenderOps }            \* SetPower(true)
  \cup { WriteOps }                         \* SetRotationEnabled, SetBrightness
  \cup { MutatorOps, MutatorOps \o ReadOps }   \* SetRotationApps, AddToRotation
  \cup { ReadOps \o WriteOps \o r : r \in RenderOps }            \* ShowApp(id, 0)
  \cup { ReadOps \o WriteOps \o r \o << Go("timer") >> : r \in RenderOps }
  \cup { MutatorOps \o r : r \in RenderOps }                     \* PushText
  \cup { SkipOps }

\* what a started goroutine runs
GoOps(t) == IF t = "cb" THEN RenderOps ELSE { WriteOps }

\* the goroutines a program starts
Starts(prog) == { prog[i].arg : i \in { j \in 1..Len(prog) : prog[j].op = "go" } }

Busy(t) == sync.thr[t] # << >>

\* sync.RWMutex: a writer needs the lock free of writer and readers; a reader
\* needs it free of a writer and of waiting writers
CanLock(x) == sync.mu[x].w = "none" /\ sync.mu[x].r = {}
CanRLock(x) == sync.mu[x].w = "none" /\ sync.mu[x].pend = {}

\* the goroutine t can run its next operation
CanStep(t) ==
  /\ Busy(t)
  /\ LET i == Head(sync.thr[t])
     IN  CASE i.op = "Lock"  -> CanLock(i.arg) \/ t \notin sync.mu[i.arg].pend
           [] i.op = "RLock" -> CanRLock(i.arg)
           [] OTHER          -> TRUE

\* a call begins on an idle goroutine (a program that starts a goroutine waits
\* for the last one of the kind to have finished: one of each is modelled)
Begin(t, prog) ==
  /\ ~Busy(t)
  /\ prog # << >>
  /\ \A u \in Starts(prog) : ~Busy(u)
  /\ sync' = [sync EXCEPT !.thr[t] = prog,
                          !.got = IF t = "get" THEN Snapshot("none") ELSE @]
  /\ UNCHANGED << mgrVars, loopVars, dispVars, obsVars, brightness, notifyQueue,
                  config, disk, call, timers, hist, peer, dims, ret, stopCh >>

\* "go m.Run()"
LoopStart ==
  /\ ~sync.run
  /\ sync' = [sync EXCEPT !.run = TRUE]
  /\ UNCHANGED << mgrVars, loopVars, dispVars, obsVars, brightness, notifyQueue,
                  config, disk, call, timers, hist, peer, dims, ret, stopCh >>

\* the select of Manager.Run takes a case
LoopSelect(c, prog) ==
  /\ sync.run
  /\ ~Busy("loop")
  /\ c # "tick" => sync.ch[c] > 0
  /\ prog \in (CASE c = "skip" -> SkipCaseOps [] c = "update" -> UpdateCaseOps
                  [] OTHER -> TickCaseOps)
  /\ \A u \in Starts(prog) : ~Busy(u)
  /\ sync' = [sync EXCEPT !.thr["loop"] = prog,
                          !.ch = IF c = "tick" THEN @ ELSE [@ EXCEPT ![c] = @ - 1]]
  /\ UNCHANGED << mgrVars, loopVars, dispVars, obsVars, brightness, notifyQueue,
                  config, disk, call, timers, hist, peer, dims, ret, stopCh >>

\* the goroutine t runs its next operation; g is what a goroutine it starts runs
Step(t, g) ==
  /\ CanStep(t)
  /\ LET i    == Head(sync.thr[t])
         x    == i.arg
         rest == Tail(sync.thr[t])
     IN  sync' =
           CASE i.op = "Lock" /\ CanLock(x) ->
                  [sync EXCEPT !.mu[x].w = t, !.mu[x].pend = @ \ { t }, !.thr[t] = rest]
             [] i.op = "Lock" /\ ~CanLock(x) ->
                  [sync EXCEPT !.mu[x].pend = @ \cup { t }]
             [] i.op = "Unlock" ->
                  [sync EXCEPT !.mu[x].w = "none", !.thr[t] = rest]
             [] i.op = "RLock" ->
                  [sync EXCEPT !.mu[x].r = @ \cup { t }, !.thr[t] = rest]
             [] i.op = "RUnlock" ->
                  [sync EXCEPT !.mu[x].r = @ \ { t }, !.thr[t] = rest]
             [] i.op = "go" ->
                  [sync EXCEPT !.thr[t] = rest, !.thr[x] = g]
             [] i.op = "send" ->
                  [sync EXCEPT !.ch[x] = SkipSend(@), !.thr[t] = rest]
             [] i.op = "store" ->
                  [sync EXCEPT !.frame = Snapshot(x), !.thr[t] = rest]
             [] i.op = "load" ->
                  [sync EXCEPT !.got[x] = sync.frame[x], !.thr[t] = rest]
             [] i.op = "nil?" ->
                  IF sync.frame = Snapshot("nil")
                  THEN [sync EXCEPT !.got = Snapshot("test-pattern"),
                                    !.thr[t] = SelectSeq(rest, LAMBDA j : j.op = "RUnlock")]
                  ELSE [sync EXCEPT !.thr[t] = rest]
  /\ Head(sync.thr[t]).op = "go" => g \in GoOps(Head(sync.thr[t]).arg)
  /\ Head(sync.thr[t]).op # "go" => g = << >>
  /\ UNCHANGED << mgrVars, loopVars, dispVars, obsVars, brightness, notifyQueue,
                  config, disk, call, timers, hist, peer, dims, ret, stopCh >>

LockInit == \E dflt \in DefaultDwells : InitWith(<< AppEntry("a", 0, TRUE) >>, dflt, TRUE)

LockNext ==
  \/ LoopStart
  \/ \E c \in { "skip", "update", "tick" }, prog \in SkipCaseOps \cup UpdateCaseOps \cup TickCaseOps :
       LoopSelect(c, prog)
  \/ \E prog \in GetFrameOps : Begin("get", prog)
  \/ \E prog \in ApiOps : Begin("api", prog)
  \/ \E t \in Threads, g \in RenderOps \cup { WriteOps } : Step(t, g)

LockSpec == LockInit /\ [][LockNext]_vars

\* the contents rendered while GetFrame is called
FrameNames == { "a", "c" }

\* GetFrame is called while callbacks and API calls store frames, the power is
\* switched off and the ShowApp timer sets the enabled flag
FrameNext ==
  \/ Begin("get", GetFrameSteps)
  \/ \E n \in FrameNames : Begin("cb", setFrameSteps(n))
  \/ \E n \in FrameNames : Begin("api", setFrameSteps(n))
  \/ Begin("api", renderBlankScreenSteps)
  \/ Begin("timer", WriteOps)
  \/ \E t \in Threads : Step(t, << >>)

FrameSpec == LockInit /\ [][FrameNext]_vars

\* a Display registered with some size: it rotates, and its power is switched
SizeInit ==
  /\ dims \in DisplaySizes
  /\ \E dflt \in DefaultDwells :
       InitOf(<< AppEntry("a", 0, TRUE) >>, dflt, TRUE, BaseConfig)
  /\ enabled = config.RotationEnabled

SizeNext ==
  \/ \E on \in BOOLEAN : SetPowerBegin(on)
  \/ SetPowerOff(TRUE)
  \/ SetPowerOnSelect
  \/ \E outcome \in RenderOutcomes : SetPowerOn(outcome, TRUE)
  \/ LoopNext

SizeSpec == SizeInit /\ [][SizeNext]_vars

\* a Display whose brightness is set while it runs and its power is switched
BrightNext ==
  \/ \E b \in BrightnessInputs : SetBrightness(b, TRUE)
  \/ \E on \in BOOLEAN : SetPowerBegin(on)
  \/ SetPowerOff(TRUE)
  \/ SetPowerOnSelect
  \/ \E outcome \in RenderOutcomes : SetPowerOn(outcome, TRUE)
  \/ LoopNext

BrightSpec == NotifyInit /\ [][BrightNext]_vars

\* ------------------------------------ the rotation list through the Display
\* the IDs the Display's methods are called with
RequestIds == { "c" } \cup UnknownIds

\* the list SetRotationApps is called with and the brightness SetBrightness is
\* called with, over the failing store
StoreLists == { << >> }
StoreBrightness == { 150 }

\* SetRotationApps: d.rotation.SetApps(apps), then d.config.SetApps(apps)
SetRotationApps(list, saved) ==
  /\ call = <<>>
  /\ ~MuHeld
  /\ apps' = list
  /\ currentIndex' = SetAppsIndex(list, currentIndex)
  /\ updateCh' = NotifyUpdate(updateCh)
  /\ config' = [config EXCEPT !.Apps = list]
  /\ disk' = Save(config', disk, saved)
  /\ ret' = Returned(saved)
  /\ UNCHANGED << enabled, defaultDwell, skipCh, onAdvance, loopVars, dispVars,
                  obsVars, brightness, notifyQueue, call, timers, hist, peer, sync, dims, stopCh >>

\* AddToRotation: d.apps.Get(appID) == nil returns the error at once
AddToRotationRejected(id) ==
  /\ call = <<>>
  /\ NotInstalled(id)
  /\ ret' = "not installed"
  /\ UNCHANGED << mgrVars, loopVars, dispVars, obsVars, brightness, notifyQueue,
                  config, disk, call, timers, hist, peer, sync, dims, stopCh >>

\* AddToRotation for an installed app: the entry is built with Enabled true,
\* d.rotation.AddApp(entry), then d.config.SetApps(d.rotation.GetApps())
AddToRotation(id, saved) ==
  /\ call = <<>>
  /\ ~MuHeld
  /\ ~NotInstalled(id)
  /\ Len(apps) < MaxApps
  /\ apps' = Append(apps, AppEntry(id, 0, TRUE))
  /\ updateCh' = NotifyUpdate(updateCh)
  /\ config' = [config EXCEPT !.Apps = apps']
  /\ disk' = Save(config', disk, saved)
  /\ ret' = Returned(saved)
  /\ UNCHANGED << currentIndex, enabled, defaultDwell, skipCh, onAdvance, loopVars,
                  dispVars, obsVars, brightness, notifyQueue, call, timers, hist,
                  peer, sync, dims, stopCh >>

\* RemoveFromRotation: d.rotation.RemoveApp(appID) returned false, the error is
\* returned at once
RemoveFromRotationRejected(id) ==
  /\ call = <<>>
  /\ ~MuHeld
  /\ FirstMatch(apps, id, 1) = 0
  /\ ret' = "not in rotation"
  /\ UNCHANGED << mgrVars, loopVars, dispVars, obsVars, brightness, notifyQueue,
                  config, disk, call, timers, hist, peer, sync, dims, stopCh >>

\* RemoveFromRotation of an ID in the list: RemoveApp took the first entry with
\* the ID out, then d.config.SetApps(d.rotation.GetApps())
RemoveFromRotation(id, saved) ==
  /\ call = <<>>
  /\ ~MuHeld
  /\ FirstMatch(apps, id, 1) > 0
  /\ apps' = RemoveAt(apps, FirstMatch(apps, id, 1))
  /\ currentIndex' = RemoveAppIndex(apps', currentIndex)
  /\ updateCh' = NotifyUpdate(updateCh)
  /\ config' = [config EXCEPT !.Apps = apps']
  /\ disk' = Save(config', disk, saved)
  /\ ret' = Returned(saved)
  /\ UNCHANGED << enabled, defaultDwell, skipCh, onAdvance, loopVars, dispVars,
                  obsVars, brightness, notifyQueue, call, timers, hist, peer, sync, dims, stopCh >>

\* ShowApp: d.apps.Get(appID) == nil returns the error at once
ShowAppRejected(id) ==
  /\ call = <<>>
  /\ NotInstalled(id)
  /\ ret' = "not installed"
  /\ UNCHANGED << mgrVars, loopVars, dispVars, obsVars, brightness, notifyQueue,
                  config, disk, call, timers, hist, peer, sync, dims, stopCh >>

\* a Display whose settings and rotation list are changed through its API, over
\* a store whose writes may fail
StoreInit ==
  /\ dims = DefaultDims
  /\ \E dflt \in DefaultDwells :
       InitOf(<< AppEntry("a", 0, TRUE) >>, dflt, TRUE,
              [ RotationEnabled |-> TRUE, PowerOn |-> TRUE, Brightness |-> InitBrightness,
                Apps |-> << AppEntry("a", 0, TRUE) >> ])
  /\ enabled = config.RotationEnabled

StoreNext ==
  \/ \E b \in StoreBrightness, saved \in BOOLEAN : SetBrightness(b, saved)
  \/ \E b \in BOOLEAN, saved \in BOOLEAN : SetRotationEnabled(b, saved)
  \/ \E list \in StoreLists, saved \in BOOLEAN : SetRotationApps(list, saved)
  \/ \E id \in RequestIds : AddToRotationRejected(id)
  \/ \E id \in RequestIds, saved \in BOOLEAN : AddToRotation(id, saved)
  \/ \E id \in RequestIds : RemoveFromRotationRejected(id)
  \/ \E id \in RequestIds, saved \in BOOLEAN : RemoveFromRotation(id, saved)
  \/ \E id \in RequestIds : ShowAppRejected(id)
  \/ \E on \in BOOLEAN : SetPowerBegin(on)
  \/ \E saved \in BOOLEAN : SetPowerOff(saved)
  \/ SetPowerOnSelect
  \/ \E outcome \in RenderOutcomes, saved \in BOOLEAN : SetPowerOn(outcome, saved)

StoreSpec == StoreInit /\ [][StoreNext]_vars

\* ------------------------------------------------------------ stopping
\* close(ch): closing a closed channel panics
CloseSilently(ch) == "nil"
CloseOutcome(ch) == IF ch = "closed" THEN "panic" ELSE "nil"

\* Manager.Stop: close(m.stopCh)
Stop ==
  /\ call = <<>>
  /\ stopCh' = [stopCh EXCEPT !.m = "closed"]
  /\ ret' = CloseOutcome(stopCh.m)
  /\ UNCHANGED << mgrVars, loopVars, dispVars, obsVars, brightness, notifyQueue,
                  config, disk, call, timers, hist, peer, sync, dims >>

\* Display.Stop: d.rotation.Stop(), then, unless that panicked, close(d.stopCh)
DisplayStop ==
  /\ call = <<>>
  /\ stopCh' = IF CloseOutcome(stopCh.m) = "panic" THEN stopCh
               ELSE [m |-> "closed", d |-> "closed"]
  /\ ret' = IF CloseOutcome(stopCh.m) = "panic" THEN "panic"
            ELSE CloseOutcome(stopCh.d)
  /\ UNCHANGED << mgrVars, loopVars, dispVars, obsVars, brightness, notifyQueue,
                  config, disk, call, timers, hist, peer, sync, dims >>

\* Run, "case <-m.stopCh: return": a closed channel is always ready to receive
RunStop ==
  /\ pc = "select"
  /\ stopCh.m = "closed"
  /\ pc' = "returned"
  /\ UNCHANGED << mgrVars, lastAdvanceZero, elapsed, currentDwell, dispVars, obsVars,
                  apiVars >>

\* a Display that is skipped while it runs, and stopped
StopInit ==
  \E dflt \in DefaultDwells :
    InitWith(<< AppEntry("a", 0, TRUE), AppEntry("c", 100, TRUE) >>, dflt, TRUE)

StopNext ==
  \/ Skip
  \/ Stop
  \/ DisplayStop
  \/ RunStop
  \/ RunSkip
  \/ RunSkipAfter
  \/ LoopNext

StopSpec == StopInit /\ [][StopNext]_vars

\* the goroutines are scheduled: the loop goes on from where it is and each
\* callback finishes; at the select Go picks among the ready cases at random, so
\* a case that is ready every time the loop comes back is taken in the end
RunStep ==
  \/ RunSkipAfter
  \/ RunUpdate
  \/ RunTick
  \/ RunTickCheck
  \/ RunTickAdvance
  \/ RunTickAfter

StopFairness ==
  /\ WF_vars(RunStep)
  /\ WF_vars(\E g \in BagToSet(inflight), outcome \in RenderOutcomes : RenderApp(g, outcome))
  /\ SF_vars(RunStop)

StopLiveSpec == StopSpec /\ StopFairness

\* ------------------------------------------------ the update signal
\* the lists SetApps is called with while the update signal is watched
UpdateLists == { << >>, << AppEntry("b", 0, FALSE), AppEntry("c", 100, TRUE) >> }

\* a Display whose scheduler is restructured and sent notifications while it runs
UpdateNext ==
  \/ \E list \in UpdateLists : SetApps(list)
  \/ AddApp(AppEntry("c", 100, TRUE))
  \/ \E id \in { "a", "c" } : RemoveApp(id)
  \/ PushNotification(PriorityNormal, 0)
  \/ Skip
  \/ RunSkip
  \/ RunSkipAfter
  \/ LoopNext

UpdateSpec == NotifyInit /\ [][UpdateNext]_vars

\* ------------------------------------------------ renders that overlap
\* the list the Display is given once it runs
OrderList == << AppEntry("a", 0, TRUE), AppEntry("c", 100, TRUE) >>

\* a Display registered with an empty rotation (Start renders nothing), given
\* its list afterwards, whose renders all succeed
OrderInit == \E dflt \in DefaultDwells : InitWith(<< >>, dflt, TRUE)

OrderNext ==
  \/ SetApps(OrderList)
  \/ Skip
  \/ Start
  \/ RunSkip
  \/ RunSkipAfter
  \/ RunUpdate
  \/ RunTick
  \/ RunTickCheck
  \/ RunTickAdvance
  \/ RunTickAfter
  \/ \E g \in BagToSet(inflight) : RenderApp(g, "ok")

OrderSpec == OrderInit /\ [][OrderNext]_vars

\* ------------------------------------------------ a rotation left alone
\* a scheduler whose list and enabled flag stay as they were set up, with the
\* loop running and skips coming in
RotateInit ==
  /\ \E list \in AppLists, dflt \in DefaultDwells : InitWith(list, dflt, FALSE)
  /\ enabled = TRUE

RotateNext ==
  \/ Skip
  \/ Start
  \/ RunSkip
  \/ RunSkipAfter
  \/ RunUpdate
  \/ RunTick
  \/ RunTickCheck
  \/ RunTickAdvance
  \/ RunTickAfter

RotateSpec == RotateInit /\ [][RotateNext]_vars

\* the loop is started and keeps going: a step it can take it takes, and the
\* ticker's case, ready every 100 ms, is taken again and again
RotateFairness ==
  /\ WF_vars(Start)
  /\ WF_vars(RunStep)
  /\ SF_vars(RunTick)

RotateLiveSpec == RotateSpec /\ RotateFairness

\* ================================================================ claims
\* steps of the loop that the properties name
TickAdvances  == pc = "tickAdvance" /\ pc' = "tickAfter"
SkipConsumed  == pc = "select" /\ pc' = "skipAfter"
\* (a tick is the only step at the select that leaves the Manager, the channels
\* and the callbacks alone; one that changes nothing at all is not seen)
TickReceived  ==
  /\ pc = "select"
  /\ UNCHANGED << mgrVars, dispVars >>
  /\ << pc, elapsed, mark, activeMark >>' # << pc, elapsed, mark, activeMark >>

\* C1: in the scenario (apps [a dwell 0, b disabled, c dwell 2000 ms], default
\* dwell 5000 ms, rotation enabled, no skips) every tick-driven advance happens
\* when the time since the last advance, or since the loop started, has reached
\* the current entry's effective dwell (within the tick that notices it) and not
\* before: a gives way to c after 5000 ms, c to a after 2000 ms.
C1_ScenarioDwell ==
  [][ TickAdvances =>
        LET dwell == GetCurrentDwell(apps, currentIndex, defaultDwell)
        IN  /\ dwell <= mark * TickMs
            /\ mark * TickMs <= dwell + TickMs
            /\ currentIndex' = (IF currentIndex = 0 THEN 2 ELSE 0) ]_vars

\* offsets j in lo..hi at which, counting from index idx with wrap-around, an
\* enabled entry sits
EnabledOffsets(list, idx, lo, hi) ==
  { j \in lo..hi : list[((idx + j) % Len(list)) + 1].Enabled }

SetMin(S) == CHOOSE x \in S : \A y \in S : x <= y

\* the index of the next enabled entry strictly after idx (idx itself last)
NextEnabledIndex(list, idx) ==
  LET offs == EnabledOffsets(list, idx, 1, Len(list))
  IN  IF offs = {} THEN idx ELSE (idx + SetMin(offs)) % Len(list)

\* C2: the skip slot never holds more than one signal; it holds one exactly when
\* Skip() was called, once or k >= 2 times, since the loop last consumed it; and
\* consuming it leaves it empty, so the k calls are answered by one advance.
C2_SkipCoalesced ==
  /\ [](skipCh <= 1 /\ (skipCh = 1 <=> skipBurst >= 1))
  /\ [][ SkipConsumed => skipCh' = 0 /\ lastAdv'.burst = skipBurst ]_vars

\* two Skip() calls were answered by one advance and the slot is empty again
C2_Witness ==
  lastAdv.by = "skip" /\ lastAdv.burst >= 2 /\ skipCh = 0 /\ skipBurst = 0 /\ pc = "select"

\* C3: CurrentApp() is the first enabled entry at or after the current index,
\* with wrap-around, and nil exactly when the list is empty or has no enabled
\* entry; it is never a disabled entry.
C3_CurrentAppFirstEnabled ==
  LET offs == EnabledOffsets(apps, currentIndex, 0, Len(apps) - 1)
  IN  IF offs = {}
      THEN CurrentApp = <<>>
      ELSE /\ CurrentApp = << apps[((currentIndex + SetMin(offs)) % Len(apps)) + 1] >>
           /\ CurrentApp[1].Enabled

\* after an advance the list was replaced, the index points at a disabled last
\* entry and the scan wraps to an earlier one
C3_Witness ==
  /\ lastAdv.by # "none"
  /\ Len(apps) = 3
  /\ currentIndex = 2
  /\ ~apps[3].Enabled
  /\ ~apps[1].Enabled
  /\ CurrentApp = << apps[2] >>

\* C5: whenever the app list is non-empty the current index is within it.
C5_IndexInRange == Len(apps) > 0 => currentIndex \in 0..(Len(apps) - 1)

\* the loop sits between advance() and getCurrentDwell() while the list has
\* shrunk under it
C5_Witness ==
  /\ pc = "tickAfter"
  /\ lastAdv.by = "tick"
  /\ Len(apps) = 2
  /\ currentIndex = 0
  /\ ~apps[1].Enabled
  /\ updateCh = 1

\* C6: the loop can always take a pending skip; taking it moves the index to the
\* next enabled entry (advance) whatever m.enabled and the elapsed time are, and
\* the handler ends with the dwell timer reset.
C6_SkipAlwaysAdvances ==
  /\ [](pc = "select" /\ skipCh = 1 => ENABLED RunSkip)
  /\ [][ /\ SkipConsumed =>
              /\ currentIndex' = NextEnabledIndex(apps, currentIndex)
              /\ lastAdv'.by = "skip"
         /\ (pc = "skipAfter" /\ pc' # pc) =>
              /\ pc' = "select"
              /\ elapsed' = 0
              /\ ~lastAdvanceZero' ]_vars

\* a skip taken while rotation was disabled has moved the index and reset the timer
C6_Witness ==
  /\ lastAdv.by = "skip"
  /\ ~lastAdv.en
  /\ ~enabled
  /\ pc = "select"
  /\ elapsed = 0
  /\ Len(apps) = 3
  /\ currentIndex = 2

\* C4: every entry handed to the advance callback, and so rendered, is enabled.
C4_OnlyEnabledRendered == \A g \in BagToSet(inflight) : g.app.Enabled

\* steps of the loop's tick handler
TickHandlerStep ==
  \/ TickReceived
  \/ pc \in { "tickCheck", "tickAdvance", "tickAfter" } /\ pc' # pc

\* C7: while m.enabled is false no step of the tick handler moves the current
\* index or starts a callback.
C7_DisabledFreezesPosition ==
  [][ (~enabled /\ TickHandlerStep) =>
        /\ currentIndex' = currentIndex
        /\ inflight' = inflight ]_vars

\* C8 as stated: a tick-driven advance happens only once the ticks that found
\* rotation enabled since the last advance add up to the dwell.
C8_TimerFrozenWhileDisabled ==
  [][ (TickAdvances /\ lastAdv.by # "none") => activeMark * TickMs >= currentDwell ]_vars

\* C8 as amended: the timer is not frozen.  A tick that finds rotation disabled is
\* dropped but its 100 ms count, and once an advance has set the timer a tick that
\* finds rotation enabled advances exactly when the wall-clock time since the last
\* advance, disabled time included, has reached the dwell.
C8_TimerKeepsRunning ==
  [][ /\ (TickReceived /\ ~enabled) =>
            /\ pc' = "select"
            /\ elapsed' = Min(elapsed + 1, ElapsedCap)
            /\ lastAdv' = lastAdv
      /\ (pc = "tickCheck" /\ pc' # pc /\ currentDwell # 0 /\ lastAdv.by # "none") =>
            (pc' = "tickAdvance" <=> mark * TickMs >= currentDwell) ]_vars

\* rotation was disabled for part of the dwell, is enabled again, and the tick
\* decides to advance although the enabled time alone is short of the dwell
C8_Witness ==
  /\ pc = "tickAdvance"
  /\ lastAdv.by # "none"
  /\ enabled
  /\ activeMark * TickMs < currentDwell
  /\ mark * TickMs >= currentDwell

\* C9: while callbacks are running (however long), m.mu and d.mu are free, so the
\* readers return and the mutators go through, and the loop takes the next tick,
\* update signal and skip.
C9_CallbackDoesNotBlock ==
  inflight # EmptyBag =>
    /\ ~MuHeld
    /\ ~DMuHeld
    /\ \A b \in BOOLEAN : ENABLED SetEnabled(b)
    /\ pc = "select" => ENABLED RunTick
    /\ (pc = "select" /\ updateCh = 1) => ENABLED RunUpdate
    /\ (pc = "select" /\ skipCh = 1 /\ BagCardinality(inflight) < MaxInflight) =>
         ENABLED RunSkip
    /\ (pc = "tickAdvance" /\ BagCardinality(inflight) < MaxInflight) =>
         ENABLED RunTickAdvance

\* a callback started by an advance is still running and the loop has taken a
\* later tick
C9_Witness ==
  /\ BagCardinality(inflight) = 2
  /\ lastAdv.by = "tick"
  /\ mark >= 1
  /\ pc = "select"

\* a renderApp call returns
RenderReturns == BagCardinality(inflight') < BagCardinality(inflight)

\* C10: a render, failed or not, changes nothing of the Manager or of the loop;
\* every dwell expiry and every skip the loop takes still moves the index to the
\* next enabled entry and starts its callback; and with the error screen showing
\* the loop still takes ticks, skips and due advances.
C10_RenderFailureContained ==
  /\ [][ RenderReturns => UNCHANGED << mgrVars, loopVars >> ]_vars
  /\ [][ (TickAdvances \/ SkipConsumed) =>
           /\ currentIndex' = NextEnabledIndex(apps, currentIndex)
           /\ Len(apps) > 0 => BagCardinality(inflight') = BagCardinality(inflight) + 1 ]_vars
  /\ [](currentFrame.AppName = "error" =>
           /\ pc # "stopped"
           /\ pc = "select" => ENABLED RunTick
           /\ (pc = "select" /\ skipCh = 1 /\ BagCardinality(inflight) < MaxInflight) =>
                ENABLED RunSkip
           /\ (pc = "tickAdvance" /\ BagCardinality(inflight) < MaxInflight) =>
                ENABLED RunTickAdvance)

\* a dwell expiry advanced while the error screen of a failed render was showing,
\* and the error screen of a later failure is showing now
C10_Witness ==
  /\ lastAdv.by = "tick"
  /\ lastAdv.onError
  /\ currentFrame.AppName = "error"
  /\ pc = "select"

\* C11: with a renderer that always fails, once the loop has made a scheduled
\* advance over a non-empty list and the callbacks it started have returned,
\* GetFrame() returns a buffer of Width*Height*3 bytes whose content name is the
\* error screen's.
C11_ErrorFrameAfterAdvance ==
  (lastAdv.by = "tick" /\ Len(apps) > 0 /\ inflight = EmptyBag) =>
     /\ GetFrame.AppName = "error"
     /\ GetFrame.Pixels.len = Width * Height * 3

\* SetPower(false) returns
PowerOffReturns ==
  /\ call # <<>>
  /\ call[1].op = "SetPower"
  /\ ~call[1].on
  /\ call' = <<>>

\* C12: when SetPower(false) returns, rotation is disabled and the snapshot
\* GetFrame() returns has an all-zero pixel buffer, brightness 0 and dwell 0,
\* whatever the brightness and the default dwell are.
C12_PowerOffSnapshot ==
  [][ PowerOffReturns =>
        /\ ~enabled'
        /\ GetFrame'.Pixels.zero
        /\ GetFrame'.Brightness = 0
        /\ GetFrame'.DwellSecs = 0 ]_vars

\* a step of SetPower, and its return when it was SetPower(true)
SetPowerStep ==
  /\ call' # call
  /\ \/ call # <<>> /\ call[1].op = "SetPower"
     \/ call' # <<>> /\ call'[1].op = "SetPower"

PowerOnReturns ==
  /\ call # <<>>
  /\ call[1].op = "SetPower"
  /\ call[1].on
  /\ call' = <<>>

\* C13: SetPower never touches the app list or the current index, and when
\* SetPower(true) returns after a SetPower(false) of a powered-on Display with no
\* other call in between, the enabled flag is the one that held before the
\* power-off (also when ShowApp or SetRotationEnabled had disabled rotation), and
\* if the current selection was showing then, it is showing again (or the error
\* screen, or nothing new, when the render fails).
C13_PowerCycleRestores ==
  /\ [][ SetPowerStep => UNCHANGED << apps, currentIndex >> ]_vars
  /\ [][ (PowerOnReturns /\ hist.cycle = "on" /\ hist.before.name # "off") =>
            /\ enabled' = hist.before.enabled
            /\ hist.before.name = (IF call[1].target = <<>> THEN "startup"
                                   ELSE call[1].target[1].ID) =>
                 currentFrame'.AppName \in { hist.before.name, "error", "off" } ]_vars

\* SetPower(true) is called (its first statement), and it picks what to render
PowerOnBegins ==
  /\ call = <<>>
  /\ call' # <<>>
  /\ call'[1].op = "SetPower"
  /\ call'[1].on

PowerOnSelects ==
  /\ call # <<>>
  /\ call[1].op = "SetPower"
  /\ call[1].on
  /\ call[1].at = "enabled"
  /\ call' # call

\* what SetPower(true) may leave in d.currentFrame: the render of its target (the
\* ready screen when it has none), the error screen, or the old frame when the
\* render failed
PowerOnFrames ==
  IF call[1].target = <<>>
  THEN { SetFrame("startup"), currentFrame }
  ELSE { SetFrame(call[1].target[1].ID), SetFrame("error"), currentFrame }

\* C14 as stated: SetPower(true) sets the enabled flag to the rotation preference
\* last written successfully to the config store.
C14_PowerOnFromStore ==
  [][ PowerOnBegins => enabled' = disk.RotationEnabled ]_vars

\* C14 as amended: SetPower(true) sets the enabled flag to the rotation
\* preference the config holds in memory, which is the last one given to
\* SetRotationEnabled whether or not its save succeeded; before it returns it
\* renders the app CurrentApp() returned, or the ready screen when CurrentApp()
\* returned none.
C14_PowerOnFromMemory ==
  /\ [][ PowerOnBegins => enabled' = config.RotationEnabled ]_vars
  /\ [][ PowerOnSelects => call'[1].target = CurrentApp ]_vars
  /\ [][ PowerOnReturns => currentFrame' \in PowerOnFrames ]_vars

\* SetPower(true) has set the flag to a preference whose save had failed, and is
\* about to render the current app
C14_Witness ==
  /\ call # <<>>
  /\ call[1].op = "SetPower"
  /\ call[1].on
  /\ call[1].at = "render"
  /\ call[1].target # <<>>
  /\ disk.RotationEnabled # config.RotationEnabled
  /\ enabled = config.RotationEnabled
  /\ hist.cycle = "on"

\* steps of ShowApp and of its restoration goroutines
ShowBegins ==
  /\ call = <<>>
  /\ call' # <<>>
  /\ call'[1].op = "ShowApp"

ShowDisables ==
  /\ call # <<>>
  /\ call[1].op = "ShowApp"
  /\ call[1].at = "read"
  /\ call' # call

ShowReturns ==
  /\ call # <<>>
  /\ call[1].op = "ShowApp"
  /\ call' = <<>>

Restores == BagCardinality(timers') < BagCardinality(timers)

\* C15: ShowApp(id, d) for an installed id records the enabled flag E it reads,
\* then disables rotation, then renders the app once (the app's frame, the error
\* screen or nothing when the render fails) and returns at once: with d > 0 it
\* leaves one restoration pending that holds E, with d = 0 it leaves none.  A
\* restoration that fires sets the flag to the E it holds, and nothing but a call
\* of the API or a restoration ever changes the flag (the loop and the callbacks
\* do not), so after d = 0 rotation stays disabled until another operation
\* enables it.
C15_ShowAppPausesRotation ==
  /\ [][ ShowBegins => call'[1].wasEnabled = enabled /\ enabled' = enabled ]_vars
  /\ [][ ShowDisables => ~enabled' ]_vars
  /\ [][ ShowReturns =>
            /\ currentFrame' \in { SetFrame(call[1].id), SetFrame("error"), currentFrame }
            /\ enabled' = enabled
            /\ timers' = timers (+) (IF call[1].d > 0
                                     THEN SetToBag({ [wasEnabled |-> call[1].wasEnabled] })
                                     ELSE EmptyBag) ]_vars
  /\ [][ Restores => \E t \in BagToSet(timers) : enabled' = t.wasEnabled ]_vars
  /\ [][ enabled' # enabled => UNCHANGED << loopVars, inflight, currentFrame >> ]_vars

\* a ShowApp with d > 0 found rotation enabled, showed the app and returned; its
\* restoration has fired and rotation is enabled again
C15_Witness ==
  /\ hist.shows = [e0 |-> TRUE, n |-> 1, fired |-> 1]
  /\ enabled
  /\ call = <<>>
  /\ timers = EmptyBag
  /\ currentFrame.AppName \in ShowIds

\* C16: a pending restoration is never cancelled: it can fire in every state, no
\* other step removes it, and when it fires it sets the enabled flag to the value
\* it remembered whatever SetRotationEnabled, SetPower or another ShowApp made of
\* the flag meanwhile (so two overlapping ShowApp calls that began with rotation
\* enabled can leave it disabled once both restorations have fired).
C16_StaleRestoreOverwrites ==
  /\ [](\A t \in BagToSet(timers) : ENABLED Restore(t))
  /\ [][ \A t \in BagToSet(timers) :
            \/ CopiesIn(t, timers') >= CopiesIn(t, timers)
            \/ /\ timers' = timers (-) SetToBag({ t })
               /\ enabled' = t.wasEnabled ]_vars

\* rotation was enabled, two ShowApp calls overlapped, both restorations have
\* fired and rotation is left disabled although the preference is enabled
C16_Witness ==
  /\ hist.shows = [e0 |-> TRUE, n |-> 2, fired |-> 2]
  /\ ~enabled
  /\ config.RotationEnabled
  /\ timers = EmptyBag
  /\ call = <<>>

\* a notification is created (by PushNotification or by PushText), and the steps
\* of PushText
Pushes == hist'.pushes = hist.pushes + 1

PushTextBegins ==
  /\ call = <<>>
  /\ call' # <<>>
  /\ call'[1].op = "PushText"

PushTextPending == call # <<>> /\ call[1].op = "PushText"

PushTextReturns == PushTextPending /\ call' = <<>>

\* the render of PushText succeeds and the snapshot shows the text
PushTextShown == PushTextRender("ok") /\ currentFrame'.AppName = "notification"

\* the queue q with n put in at position k
InsertedAt(q, n, k) == SubSeq(q, 1, k - 1) \o << n >> \o SubSeq(q, k, Len(q))

\* where the priority p belongs in q: before the first entry of strictly lower
\* priority, after the last entry when there is none
PriorityPosition(q, p) ==
  LET lower == { i \in 1..Len(q) : q[i].Priority < p }
  IN  IF lower = {} THEN Len(q) + 1 ELSE SetMin(lower)

\* C17: one call of PushText has two effects.  It adds exactly one notification
\* to the queue, at the position its priority dictates; and whatever the queue
\* holds, its render goes ahead and, the renderer succeeding, puts the text in
\* the snapshot before the call returns, without touching the queue.
C17_PushTextTwoEffects ==
  /\ [][ PushTextBegins =>
            \E prio \in Priorities, dur \in TextDurations :
               notifyQueue' = InsertedAt(notifyQueue,
                                         Notification(call'[1].created, prio, dur),
                                         PriorityPosition(notifyQueue, prio)) ]_vars
  /\ [](PushTextPending => ENABLED PushTextShown)
  /\ [][ PushTextReturns =>
            /\ notifyQueue' = notifyQueue
            /\ currentFrame' \in { SetFrame("notification"), currentFrame }
            /\ hist'.text = call[1].created => currentFrame' = SetFrame("notification") ]_vars

\* the text of a Low push is in the snapshot while a High or Sticky notification
\* pushed before it heads the queue
C17_Witness ==
  /\ call = <<>>
  /\ Len(notifyQueue) >= 2
  /\ notifyQueue[1].Priority >= PriorityHigh
  /\ notifyQueue[Len(notifyQueue)].Priority = PriorityLow
  /\ notifyQueue[Len(notifyQueue)].Created > notifyQueue[1].Created
  /\ hist.text = notifyQueue[Len(notifyQueue)].Created
  /\ currentFrame.AppName = "notification"

\* C18: the queue is always sorted by priority, Sticky first and Low last, with
\* notifications of equal priority in arrival order; every push puts its
\* notification immediately before the first entry of strictly lower priority,
\* or at the end when there is none.
C18_QueueOrdered ==
  /\ [](\A i, j \in 1..Len(notifyQueue) :
          i < j =>
            \/ notifyQueue[i].Priority > notifyQueue[j].Priority
            \/ /\ notifyQueue[i].Priority = notifyQueue[j].Priority
               /\ notifyQueue[i].Created < notifyQueue[j].Created)
  /\ [][ Pushes =>
            \E prio \in Priorities, dur \in TextDurations :
               notifyQueue' = InsertedAt(notifyQueue,
                                         Notification(hist'.pushes, prio, dur),
                                         PriorityPosition(notifyQueue, prio)) ]_vars

\* the last push went to the head of the queue, ahead of two earlier ones of
\* equal priority that kept their arrival order
C18_Witness ==
  /\ Len(notifyQueue) = 3
  /\ notifyQueue[1].Created = 3
  /\ notifyQueue[1].Priority = PriorityHigh
  /\ notifyQueue[2].Priority = PriorityNormal
  /\ notifyQueue[3].Priority = PriorityNormal
  /\ notifyQueue[2].Created < notifyQueue[3].Created

\* the Sticky entries of q, in their order
StickyOf(q) == SelectSeq(q, LAMBDA n : n.Priority = PrioritySticky)

\* C19: ClearNotifications leaves exactly the Sticky notifications, in their
\* previous order (the only step that shortens the queue does so), and clearing
\* a cleared queue changes nothing.
C19_ClearKeepsSticky ==
  /\ [][ Len(notifyQueue') < Len(notifyQueue) => notifyQueue' = StickyOf(notifyQueue) ]_vars
  /\ [](ClearQueue(notifyQueue) = StickyOf(notifyQueue))
  /\ [](ClearQueue(ClearQueue(notifyQueue)) = ClearQueue(notifyQueue))
  /\ [](notifyQueue = StickyOf(notifyQueue) => ~ENABLED (ClearNotifications /\ vars' # vars))

\* a clear has removed a notification and kept two Sticky ones in their order
C19_Witness ==
  /\ Len(notifyQueue) = 2
  /\ hist.pushes = 3
  /\ notifyQueue[1].Priority = PrioritySticky
  /\ notifyQueue[2].Priority = PrioritySticky
  /\ notifyQueue[1].Created < notifyQueue[2].Created

\* a step of the control loop or of a callback it started
LoopStep ==
  \/ loopVars' # loopVars
  \/ inflight' # inflight
  \/ skipCh' < skipCh
  \/ updateCh' < updateCh

\* C20: the queue changes only by a push, which adds one notification, and by
\* ClearNotifications; no step of the loop (tick, skip, advance, update signal)
\* or of a callback changes the queue, however long the notifications have been
\* in it; and the loop renders nothing from the queue: the callbacks it starts
\* are given entries of the app list and store an app's frame or the error screen.
C20_QueueOnlyCleared ==
  /\ [][ notifyQueue' # notifyQueue =>
            \/ Pushes /\ Len(notifyQueue') = Len(notifyQueue) + 1
            \/ ~Pushes /\ notifyQueue' = StickyOf(notifyQueue) ]_vars
  /\ [][ LoopStep => notifyQueue' = notifyQueue ]_vars
  /\ [](\A g \in BagToSet(inflight) : \E i \in 1..Len(apps) : g.app = apps[i])
  /\ [][ (LoopStep /\ currentFrame' # currentFrame) =>
            currentFrame'.AppName \in { apps[i].ID : i \in 1..Len(apps) } \cup { "error" } ]_vars

\* three notifications, none Sticky, are all still queued in their order after
\* the loop has handled the update signal of the last push, taken a skip and
\* reached an advance by dwell expiry
C20_Witness ==
  /\ Len(notifyQueue) = 3
  /\ hist.pushes = 3
  /\ \A i \in 1..3 : notifyQueue[i].Priority # PrioritySticky
  /\ updateCh = 0
  /\ lastAdv.by = "skip"
  /\ pc = "tickAdvance"

\* a step of SetApps that shows (in ReplaceSpec nothing else writes the list, and
\* the loop moves the index only together with its own position)
SetAppsStep ==
  /\ pc' = pc
  /\ skipCh' = skipCh
  /\ apps' # apps \/ currentIndex' # currentIndex \/ updateCh' > updateCh

\* the first enabled entry of list at a position idx or later, without wrapping
FirstEnabledAtOrAfter(list, idx) ==
  LET S == { k \in idx..(Len(list) - 1) : list[k + 1].Enabled }
  IN  IF S = {} THEN << >> ELSE << list[SetMin(S) + 1] >>

\* the first enabled entry of list scanning forward from idx with wrap-around
FirstEnabledFrom(list, idx) ==
  IF Len(list) = 0 THEN << >>
  ELSE LET offs == EnabledOffsets(list, idx, 0, Len(list) - 1)
       IN  IF offs = {} THEN << >>
           ELSE << list[((idx + SetMin(offs)) % Len(list)) + 1] >>

\* what SetApps(list) does to the list and the index
SetAppsEffect(list) ==
  /\ apps' = list
  /\ currentIndex' = IF currentIndex >= Len(list) THEN 0 ELSE currentIndex

\* C21 as stated: SetApps(list) replaces the list, resets an index >= len(list)
\* to 0 and leaves any other index alone, and afterwards CurrentApp() is the
\* first enabled entry at or after the resulting index.
C21_CurrentAtOrAfter ==
  [][ SetAppsStep =>
        \E list \in AppLists :
           /\ SetAppsEffect(list)
           /\ CurrentApp' = FirstEnabledAtOrAfter(list, currentIndex') ]_vars

\* C21 amended: ... afterwards CurrentApp() is the first enabled entry found
\* scanning forward from the resulting index with wrap-around (an entry before
\* the index when none at or after it is enabled); after a reset that is the
\* first enabled entry counting from index 0.
C21_SetAppsThenCurrent ==
  /\ [][ SetAppsStep =>
            \E list \in AppLists :
               /\ SetAppsEffect(list)
               /\ CurrentApp' = FirstEnabledFrom(list, currentIndex')
               /\ currentIndex >= Len(list) =>
                     CurrentApp' = FirstEnabledAtOrAfter(list, 0) ]_vars
  /\ [](\A list \in AppLists :
          LET idx == SetAppsIndex(list, currentIndex)
          IN  /\ idx = (IF currentIndex >= Len(list) THEN 0 ELSE currentIndex)
              /\ CurrentAppOf(list, idx) = FirstEnabledFrom(list, idx))

\* between the loop's advance and its dwell computation the list was replaced
\* by [enabled, disabled]; the index the advance left, 1, is valid in it and was
\* kept (an advance on this list would have left 0), and the entry selected is
\* the one before the index
C21_Witness ==
  /\ pc = "tickAfter"
  /\ updateCh = 1
  /\ Len(apps) = 2
  /\ currentIndex = 1
  /\ ~apps[2].Enabled
  /\ CurrentApp = << apps[1] >>

\* a step of SetBrightness: Config.SetBrightness stores the value it was given
SetBrightnessStep == config'.Brightness # config.Brightness

\* C22: the scheduler's brightness and the brightness GetFrame() reports are in
\* [0,100] in every reachable state, and SetBrightness(v) stores
\* min(100, max(0, v)): 150 gives 100 and -5 gives 0.
C22_BrightnessClamped ==
  /\ [](brightness \in 0..100 /\ GetFrame.Brightness \in 0..100)
  /\ [][ SetBrightnessStep =>
            LET v == config'.Brightness
            IN  /\ brightness' = Min(100, IF v > 0 THEN v ELSE 0)
                /\ v = 150 => brightness' = 100
                /\ v = -5 => brightness' = 0
                /\ GetFrame'.Brightness = brightness' \/ currentFrame = NilFrame ]_vars

\* SetBrightness(150) was called after the snapshot was stored at brightness 0
\* (set by SetBrightness(-5)); GetFrame reports 100
C22_Witness ==
  /\ config.Brightness = 150
  /\ brightness = 100
  /\ currentFrame.AppName = "a"
  /\ currentFrame.Brightness = 0
  /\ GetFrame.Brightness = 100

\* a step of an operation on the second Display, A
PeerStep == peer' # peer

\* B.IsPowerOn()
IsPowerOn == config.PowerOn

\* C23: no operation on display A changes what display B reports or does: B's
\* IsPowerOn, enabled flag, the value B's next SetPower(true) gives the flag,
\* brightness, app list, current index and snapshot are as they were.
C23_DisplaysIndependent ==
  [][ PeerStep =>
        /\ IsPowerOn' = IsPowerOn
        /\ PowerOnEnabled(config, disk)' = PowerOnEnabled(config, disk)
        /\ enabled' = enabled
        /\ brightness' = brightness
        /\ apps' = apps
        /\ currentIndex' = currentIndex
        /\ GetFrame' = GetFrame ]_vars

\* the goroutines t waits for: the holders of the lock it asks for, and for a
\* reader also the writers waiting for it
Blockers(t) ==
  LET i == Head(sync.thr[t])
      m == sync.mu[i.arg]
  IN  (IF m.w = "none" THEN {} ELSE { m.w }) \cup m.r
        \cup (IF i.op = "RLock" THEN m.pend ELSE {})

Blocked(t) == Busy(t) /\ ~CanStep(t)

\* C24: no set of goroutines wait on each other through d.mu and m.mu: of the
\* goroutines in the middle of a method at least one can run its next
\* operation, and every blocked one waits for a goroutine outside any set of
\* blocked goroutines that wait only for each other; and a send of Skip or of
\* notifyUpdate can always be run, the slot full or not, the loop started or not.
C24_NoLockOrderDeadlock ==
  /\ (\E t \in Threads : Busy(t)) => \E t \in Threads : CanStep(t)
  /\ \A S \in SUBSET Threads :
       S # {} => \E t \in S : ~Blocked(t) \/ ~(Blockers(t) \subseteq S)
  /\ \A t \in Threads :
       (Busy(t) /\ Head(sync.thr[t]).op = "send") =>
          ENABLED Step(t, << >>)

\* setFrame holds d.mu and waits for m.mu, which a SetEnabled holds, while
\* GetFrame waits for d.mu, and the skip slot is full before the loop has started
C24_Witness ==
  /\ sync.mu["d.mu"].w = "cb"
  /\ sync.mu["m.mu"].w = "api"
  /\ Blocked("cb")
  /\ Blocked("get")
  /\ sync.ch.skip = 1

\* every field comes from the same FrameData
Coherent(fd) == \A f, g \in FrameFields : fd[f] = fd[g]

\* C25: the fields GetFrame has copied so far (pixel buffer, frame count,
\* per-frame delay, content name), and so the ones it returns, all come from one
\* snapshot that was stored completely; the stored snapshot is always one whole
\* FrameData, and it changes only by being replaced, by a goroutine that holds
\* d.mu exclusively.
C25_NoTornFrame ==
  /\ [](\A f, g \in FrameFields :
          (sync.got[f] # "none" /\ sync.got[g] # "none") => sync.got[f] = sync.got[g])
  /\ [](Coherent(sync.frame))
  /\ [][ sync.frame' # sync.frame =>
            /\ sync.mu["d.mu"].w # "none"
            /\ sync.mu["d.mu"].r = {}
            /\ \E n \in FrameNames \cup { "off" } : sync.frame' = Snapshot(n) ]_vars
  /\ [][ (Busy("get") /\ sync.got # Snapshot("none") /\ sync.got' = sync.got) =>
            sync.frame' = sync.frame ]_vars

\* GetFrame has returned the frame of a; the frame of c has replaced it since,
\* and an API call holds d.mu to store the next
C25_Witness ==
  /\ ~Busy("get")
  /\ sync.got = Snapshot("a")
  /\ sync.frame = Snapshot("c")
  /\ sync.mu["d.mu"].w = "api"

\* C26: the snapshot GetFrame() returns reports the Display's configured width
\* and height, and its pixel buffer has exactly Width*Height*3*FrameCount bytes,
\* whatever it shows and whatever the Display's size.
C26_BufferMatchesSize ==
  /\ GetFrame.Width = dims.Width
  /\ GetFrame.Height = dims.Height
  /\ GetFrame.Pixels.len = GetFrame.Width * GetFrame.Height * 3 * GetFrame.FrameCount

\* a setter of the Display returns while the store refuses the write
FailedStoreStep ==
  \/ \E b \in StoreBrightness : SetBrightness(b, FALSE)
  \/ \E b \in BOOLEAN : SetRotationEnabled(b, FALSE)
  \/ \E list \in StoreLists : SetRotationApps(list, FALSE)
  \/ \E id \in RequestIds : AddToRotation(id, FALSE)
  \/ \E id \in RequestIds : RemoveFromRotation(id, FALSE)
  \/ SetPowerOff(FALSE)
  \/ \E outcome \in RenderOutcomes : SetPowerOn(outcome, FALSE)

\* what the call changed in the scheduler and in the Display stands as the call
\* made it: each setting the call gave a new value in memory is the live one
ChangeInEffect ==
  /\ config'.Brightness # config.Brightness
       => brightness' = ClampBrightness(config'.Brightness)
  /\ config'.RotationEnabled # config.RotationEnabled
       => enabled' = config'.RotationEnabled
  /\ config'.Apps # config.Apps => apps' = config'.Apps
  /\ config'.PowerOn # config.PowerOn /\ ~config'.PowerOn
       => currentFrame' = renderBlankScreen /\ ~enabled'
  /\ config'.PowerOn # config.PowerOn /\ config'.PowerOn
       => enabled' = config'.RotationEnabled

\* C27: when the store fails during SetBrightness, SetRotationEnabled,
\* SetRotationApps, AddToRotation, RemoveFromRotation or SetPower, the caller gets
\* the error, the file keeps what it held, and the change the call made to the
\* scheduler and the Display stays in effect
C27_FailedStoreNotRolledBack ==
  [][FailedStoreStep => /\ ret' = "error"
                        /\ disk' = disk
                        /\ ChangeInEffect]_vars

\* a setter has returned the store's error and the live list, brightness and
\* rotation flag all differ from what the file holds
C27_Witness ==
  /\ ret = "error"
  /\ call = <<>>
  /\ apps # disk.Apps
  /\ brightness # ClampBrightness(disk.Brightness)
  /\ enabled # disk.RotationEnabled
  /\ config # disk

\* a call the validation has to refuse: AddToRotation or ShowApp with an ID the
\* repository does not hold, RemoveFromRotation with an ID the list does not
\* hold, whichever way the method takes
InvalidCall ==
  \/ \E id \in UnknownIds, saved \in BOOLEAN :
       AddToRotationRejected(id) \/ AddToRotation(id, saved)
  \/ \E id \in UnknownIds, d \in ShowDurations :
       ShowAppRejected(id) \/ ShowAppBegin(id, d)
  \/ \E id \in RequestIds, saved \in BOOLEAN :
       /\ FirstMatch(apps, id, 1) = 0
       /\ RemoveFromRotationRejected(id) \/ RemoveFromRotation(id, saved)

\* C28: AddToRotation and ShowApp with an ID unknown to the repository, and
\* RemoveFromRotation with an ID not in the rotation, return an error within the
\* call and leave the list, the index, the enabled flag, the notification queue
\* and the snapshot as they were; no restoration is scheduled and nothing is
\* written to the config
C28_RejectedWithoutChange ==
  [][InvalidCall => /\ ret' \in { "not installed", "not in rotation" }
                    /\ call' = <<>>
                    /\ UNCHANGED << apps, currentIndex, enabled, notifyQueue,
                                    currentFrame, timers, updateCh, config, disk >>]_vars

\* a call was refused on a Display whose list was changed before
C28_Witness ==
  /\ ret = "not installed"
  /\ Len(apps) = 2
  /\ ~enabled
  /\ currentFrame = renderBlankScreen

\* the loop calls advance(), for a skip or for a dwell that has run out
AdvanceStep == TickAdvances \/ SkipConsumed

\* C30: advance on an empty list changes nothing and starts no callback; on a
\* list of N > 0 entries the index becomes the first of (i+1) mod N, ...,
\* (i+N) mod N whose entry is enabled (a lone enabled entry at i is selected
\* again), stays i when no entry is enabled, and the callback is started exactly
\* once, with the entry at the resulting index
C30_AdvanceStep ==
  [][AdvanceStep =>
       IF Len(apps) = 0
       THEN UNCHANGED << currentIndex, inflight >>
       ELSE /\ currentIndex' = NextEnabledIndex(apps, currentIndex)
            /\ inflight' = inflight (+) SetToBag({ [app |-> apps[currentIndex' + 1],
                                                    locks |-> {}] })]_vars

\* a skip has advanced over a list whose only enabled entry is the current one:
\* the entry is selected again and the callback runs with it
C30_Witness ==
  /\ pc = "skipAfter"
  /\ Len(apps) = 2
  /\ apps[currentIndex + 1].Enabled
  /\ \A k \in 1..Len(apps) : k # currentIndex + 1 => ~apps[k].Enabled
  /\ \E g \in BagToSet(inflight) : g.app = apps[currentIndex + 1]

\* Stop or Display.Stop is called on a scheduler whose stop channel is closed
SecondStop == stopCh.m = "closed" /\ (Stop \/ DisplayStop)

\* Run is executing (it was started and has not returned)
Running == pc \notin { "idle", "returned" }

\* C29: once Stop has closed the stop channel the running loop eventually
\* returns; after it has returned it takes no step and advances no more; and a
\* second Stop on the scheduler, or a second Display.Stop, panics instead of
\* passing silently
C29_StopTerminatesOnce ==
  /\ (stopCh.m = "closed" /\ Running) ~> pc = "returned"
  /\ [][pc = "returned" => /\ pc' = "returned"
                           /\ ~AdvanceStep
                           /\ lastAdv' = lastAdv
                           /\ BagCardinality(inflight') <= BagCardinality(inflight)]_vars
  /\ [][SecondStop => ret' = "panic" /\ stopCh' = stopCh]_vars

\* the loop has returned with a skip still in its slot, and a second stop has
\* panicked
C29_Witness ==
  /\ pc = "returned"
  /\ skipCh > 0
  /\ ret = "panic"
  /\ currentIndex > 0

\* a structural mutation returns
StructuralMutation ==
  \/ \E list \in UpdateLists : SetApps(list)
  \/ AddApp(AppEntry("c", 100, TRUE))
  \/ \E id \in { "a", "c" } : RemoveApp(id)
  \/ PushNotification(PriorityNormal, 0)

\* the loop takes the update case of its select
UpdateConsumed == pc = "select" /\ updateCh' < updateCh

\* C31: a structural mutation (SetApps, AddApp, a RemoveApp that finds the ID,
\* PushNotification) leaves exactly one update signal pending, never more; and
\* the loop's update case only recomputes the effective dwell: the index, the
\* time of the last advance and the callbacks under way stay as they were
C31_UpdateOnlyRecomputes ==
  /\ [](updateCh <= 1)
  /\ [][StructuralMutation => updateCh' = 1]_vars
  /\ [][UpdateConsumed =>
          /\ currentDwell' = GetCurrentDwell(apps, currentIndex, defaultDwell)
          /\ pc' = "select"
          /\ UNCHANGED << apps, currentIndex, lastAdvanceZero, elapsed, lastAdv,
                          inflight, currentFrame >>]_vars

\* the signal of the last of several mutations has been consumed by a loop that
\* had advanced before
C31_Witness ==
  /\ updateCh = 0
  /\ pc = "select"
  /\ hist.pushes = 2
  /\ Len(apps) = 2
  /\ currentIndex = 1
  /\ ~lastAdvanceZero
  /\ currentDwell = GetCurrentDwell(apps, currentIndex, defaultDwell)

\* the Display is off: SetPower(false) has returned and no SetPower is under way
PoweredOff == ~config.PowerOn /\ (call = <<>> \/ call[1].op # "SetPower")

\* C32: from SetPower(false) to the next SetPower(true) the snapshot's pixel
\* buffer is all zero: no tick, Skip, callback still under way, ShowApp or
\* PushText replaces the blank frame while the Display is off
C32_OffStaysBlank ==
  PoweredOff => currentFrame.AppName = "off" /\ currentFrame.Pixels.zero

\* the loop's first advance() call since it started, made by the tick case
FirstTickAdvance == TickAdvances /\ lastAdv.by = "none"

\* C33: with the update signal NewDisplay's SetApps left pending when the loop
\* starts, the first tick-driven advance still comes no earlier than one
\* effective dwell of the first app after the start
C33_FirstDwellInFull ==
  [][FirstTickAdvance =>
       mark * TickMs >= GetCurrentDwell(apps, currentIndex, defaultDwell)]_vars

\* every render that was started has completed, and the snapshot shows the
\* second entry of the list: Start renders the first one (the index is 0 until
\* the first advance), so an advance's render stored it
RendersSettled ==
  /\ inflight = EmptyBag
  /\ Len(apps) > 0
  /\ currentFrame.AppName = OrderList[2].ID

\* C34: when the renders started by successive advances overlap, an older one
\* never overwrites a newer one: with all renders completed (and no ShowApp,
\* PushText or power change), the snapshot shows the app the most recent
\* advance selected
C34_NewestRenderWins ==
  RendersSettled => currentFrame.AppName = apps[currentIndex + 1].ID

\* the entries an advance from index i to index j passes over, j excluded (all
\* the others when j = i)
PassedOver(N, i, j) ==
  LET dist == IF j = i THEN N ELSE (j - i + N) % N
  IN  { (i + d) % N : d \in 1..(dist - 1) }

\* an advance takes the enabled entry that follows the current index in list
\* order, around the end of the list
TakesNextInOrder ==
  /\ apps[currentIndex' + 1].Enabled
  /\ \A k \in PassedOver(Len(apps), currentIndex, currentIndex') : ~apps[k + 1].Enabled

\* C35: with rotation enabled, the list left alone and the loop ticking, every
\* enabled entry is the current entry again and again, and the advances go
\* through the enabled entries in list order, one after the other, so between
\* two selections of one entry every other enabled entry is selected exactly once
C35_RoundRobin ==
  /\ \A k \in 1..MaxApps :
       []<>(k <= Len(apps) /\ apps[k].Enabled => currentIndex = k - 1)
  /\ [][AdvanceStep /\ (\E k \in 1..Len(apps) : apps[k].Enabled)
          => TakesNextInOrder]_vars

\* a tick-driven advance has come back to the first entry of a three-entry list
\* around its end
C35_Witness ==
  /\ pc = "tickAfter"
  /\ lastAdv.by = "tick"
  /\ Len(apps) = 3
  /\ currentIndex = 0
  /\ \E k \in 2..3 : apps[k].Enabled

\* the enabled entries of the list, by position
EnabledPositions == { k \in 1..Len(apps) : apps[k].Enabled }

\* C36: with at least two entries enabled, every advance changes the app
\* CurrentApp() returns, also the first advance after SetApps or Start with the
\* current index on a disabled entry
C36_AdvanceChangesCurrentApp ==
  [][AdvanceStep /\ Cardinality(EnabledPositions) >= 2
       => CurrentApp' # CurrentApp]_vars

\* the effective dwell of the app CurrentApp() returns: its DwellMs if > 0,
\* else the default (the default too when there is no such app)
DwellOfCurrentApp ==
  IF CurrentApp # << >> /\ CurrentApp[1].DwellMs > 0 THEN CurrentApp[1].DwellMs
  ELSE defaultDwell

\* C37: the effective dwell the loop applies is always that of the app
\* CurrentApp() returns, also when the current index points at a disabled entry
\* and CurrentApp() has scanned forward to a later one
C37_DwellOfShownApp ==
  [][currentDwell' # currentDwell => currentDwell' = DwellOfCurrentApp']_vars

\* the position in the list of the entry CurrentApp() returns (0 when it
\* returns nil)
CurrentPosition ==
  IF CurrentApp = << >> THEN 0
  ELSE ((currentIndex + SetMin(EnabledOffsets(apps, currentIndex, 0, Len(apps) - 1)))
          % Len(apps)) + 1

\* RemoveApp takes out an entry that is not the one CurrentApp() returns
RemovesAnother ==
  \E id \in AppIds : RemoveApp(id) /\ FirstMatch(apps, id, 1) # CurrentPosition

\* AddApp is called while some entry is enabled
AddsToSelectable == CurrentApp # << >> /\ \E app \in AppEntries : AddApp(app)

\* C38: RemoveApp of an entry other than the one CurrentApp() returns leaves
\* CurrentApp() as it was, wherever the removed entry sits relative to the
\* index; AddApp never changes CurrentApp() when an enabled entry exists
C38_MutationKeepsCurrentApp ==
  [][RemovesAnother \/ AddsToSelectable => CurrentApp' = CurrentApp]_vars

\* Display.SetBrightness(v) returns with the value written to the store
SetBrightnessSaved(v) == SetBrightness(v, TRUE)

\* the brightness a Display built by NewDisplay from the stored config reports
RebuiltBrightness == NewPeer(disk).brightness

\* C39 as stated: after Display.SetBrightness(v) succeeds, for every integer v,
\* the brightness the config store holds equals the scheduler's brightness
C39_StoreEqualsScheduler ==
  [][\A v \in BrightnessInputs :
       SetBrightnessSaved(v) => disk'.Brightness = brightness']_vars

\* C39: after Display.SetBrightness(v) succeeds the config store holds v as it
\* was given and the scheduler holds v clamped to [0,100]; the two are equal for
\* v in [0,100], and for every v a Display rebuilt from the stored config
\* starts with the brightness the live Display has
C39_StoreRebuildsScheduler ==
  [][\A v \in BrightnessInputs :
       SetBrightnessSaved(v) =>
         /\ disk'.Brightness = v
         /\ brightness' = Min(100, IF v > 0 THEN v ELSE 0)
         /\ v \in 0..100 => disk'.Brightness = brightness'
         /\ RebuiltBrightness' = brightness']_vars

\* SetBrightness(150) has succeeded: the store holds 150, the scheduler 100, and
\* a Display rebuilt from the store starts at 100
C39_Witness ==
  /\ disk.Brightness = 150
  /\ config.Brightness = 150
  /\ brightness = 100
  /\ RebuiltBrightness = 100

====
